---------------------------- MODULE Spec2Model ----------------------------
(***************************************************************************)
(* canonical-cat: the change-detection cache and the usage index          *)
(* (src/lib/usage-tracker.ts) and the run of CatalogGenerator.generate    *)
(* that uses them (src/generator.ts).                                      *)
(*                                                                         *)
(* JavaScript values are modelled by tagged records:                       *)
(*   undefined            [t |-> "undefined"]                              *)
(*   null                 [t |-> "null"]                                   *)
(*   a string             [t |-> "str", v |-> the string]                  *)
(*   an ISO date string   [t |-> "date", v |-> the clock value it renders] *)
(*   a JSON number        [t |-> "num"]                                    *)
(*   an object            [t |-> "obj", f |-> own properties]              *)
(* where the own properties are a function from property names to values.  *)
(* Similarities and thresholds are in hundredths (1.0 is 100).             *)
(***************************************************************************)
EXTENDS Integers, Sequences, FiniteSets, TLC

VARIABLES
    file,        \* content of <cacheDir>/.catalog-cache.json on disk
    clock,       \* the system clock read by new Date()
    cache,       \* the CatalogCache value the caller holds ("none" before a load)
    result,      \* outcome of the last call of the cache API / of the last run
    config,      \* the loaded CatalogConfig (similarityThreshold)
    prev,        \* history: the declarations the previous run of generate extracted
    run,         \* the run of generate in progress or last finished
    project,     \* the ts-morph Project: its source files, in getSourceFiles() order
    index,       \* the ImportIndex built by buildImportIndex
    usages,      \* the last answer of trackUsagesFromIndex
    declaration  \* the two versions of the declaration node being hashed

vars == <<file, clock, cache, result, config, prev, run, project, index, usages,
          declaration>>

-----------------------------------------------------------------------------
(* Bounds of the model *)

MaxClock == 3
MaxCatalog == 2
MaxRuns == 2
MaxImports == 2
MaxUses == 2
MaxReformats == 1
MaxRaceCatalog == 1

-----------------------------------------------------------------------------
(* Values *)

Undefined == [t |-> "undefined"]
JNull == [t |-> "null"]
JNum == [t |-> "num"]
Str(s) == [t |-> "str", v |-> s]
Date(n) == [t |-> "date", v |-> n]
Obj(props) == [t |-> "obj", f |-> props]
EmptyProps == [p \in {} |-> Undefined]

\* o.p where o is neither undefined nor null: an own property's value of an
\* object, undefined otherwise (also for a number or a string).
Get(o, p) == IF o.t = "obj" /\ p \in DOMAIN o.f THEN o.f[p] ELSE Undefined

\* o.p = v
Put(o, p, v) ==
    Obj([q \in DOMAIN o.f \cup {p} |-> IF q = p THEN v ELSE o.f[q]])

CACHE_VERSION == Str("1.0.0")
OtherVersion == Str("0.9.0")
DefaultThreshold == 85

FilePaths == {"src/Button.tsx", "src/Card.tsx"}
ComponentKeys == {<<"src/Button.tsx", "Button">>, <<"src/Card.tsx", "Card">>}
ImplHashes == {Str("h1"), Str("h1x")}
IfaceHashes == {Str("h2"), Str("h2x")}
Thresholds == {0, DefaultThreshold, 100}
RunThresholds == {0, DefaultThreshold}
Descriptions == {Undefined, Obj([what |-> Str("w"), whenToUse |-> Str("u")])}

-----------------------------------------------------------------------------
(* lib/hasher.ts: similarity, needsRegeneration, updateCache *)

\* A similarity that grades two different hashes as close to each other.
calculateSimilarityGraded(hash1, hash2) == IF hash1 = hash2 THEN 100 ELSE 90

calculateSimilarity(hash1, hash2) == IF hash1 = hash2 THEN 100 ELSE 0

\* cache.components[componentKey] throws a TypeError when cache.components
\* is undefined or null.
IndexThrows(c) == Get(c, "components") = Undefined \/ Get(c, "components") = JNull

Cached(c, componentKey) == Get(Get(c, "components"), componentKey)

\* A needsRegeneration that forgets the interface hash.
needsRegenerationImplOnly(componentKey, newImplHash, newInterfaceHash, c, threshold) ==
    IF IndexThrows(c) THEN [threw |-> TRUE, value |-> FALSE]
    ELSE LET cached == Cached(c, componentKey) IN
         IF cached = Undefined \/ cached = JNull
         THEN [threw |-> FALSE, value |-> TRUE]
         ELSE [threw |-> FALSE,
               value |->
                  calculateSimilarity(Get(cached, "implementationHash"), newImplHash) < threshold]

\* [threw |-> TRUE, ...] is the TypeError; otherwise value is what is returned.
needsRegeneration(componentKey, newImplHash, newInterfaceHash, c, threshold) ==
    IF IndexThrows(c) THEN [threw |-> TRUE, value |-> FALSE]
    ELSE LET cached == Cached(c, componentKey) IN
         IF cached = Undefined \/ cached = JNull
         THEN [threw |-> FALSE, value |-> TRUE]
         ELSE LET implSimilarity ==
                      calculateSimilarity(Get(cached, "implementationHash"), newImplHash)
                  interfaceSimilarity ==
                      calculateSimilarity(Get(cached, "interfaceHash"), newInterfaceHash)
              IN [threw |-> FALSE,
                  value |-> implSimilarity < threshold \/ interfaceSimilarity < threshold]

\* A record that is stamped whether or not a description is given.
CachedComponentAlwaysStamped(implHash, interfaceHash, description, now) ==
    Obj([implementationHash |-> implHash,
         interfaceHash |-> interfaceHash,
         lastEnhanced |-> Date(now),
         description |-> description])

\* The record updateCache stores: all four properties are own properties,
\* lastEnhanced and description holding undefined when no description is given.
CachedComponent(implHash, interfaceHash, description, now) ==
    Obj([implementationHash |-> implHash,
         interfaceHash |-> interfaceHash,
         lastEnhanced |-> IF description # Undefined THEN Date(now) ELSE Undefined,
         description |-> description])

\* cache.components[componentKey] = {...}; a TypeError when there is no
\* components object to assign into.
updateCacheThrows(c) == IndexThrows(c)

\* An update that keeps the description and the stamp of the record it
\* finds when it is given no description.
updateCacheKeepingDescription(c, componentKey, implHash, interfaceHash, description, now) ==
    LET old == Cached(c, componentKey)
        kept == description = Undefined /\ old.t = "obj"
    IN  Put(c, "components",
            Put(Get(c, "components"), componentKey,
                Obj([implementationHash |-> implHash,
                     interfaceHash |-> interfaceHash,
                     lastEnhanced |-> IF kept THEN Get(old, "lastEnhanced")
                                      ELSE IF description # Undefined THEN Date(now)
                                      ELSE Undefined,
                     description |-> IF kept THEN Get(old, "description")
                                     ELSE description])))

updateCache(c, componentKey, implHash, interfaceHash, description, now) ==
    Put(c, "components",
        Put(Get(c, "components"), componentKey,
            CachedComponent(implHash, interfaceHash, description, now)))

-----------------------------------------------------------------------------
(* The cache file.  A file that exists and can be read holds a text, modelled *)
(* by the document JSON.parse makes of it (Invalid: JSON.parse throws).       *)

Invalid == [t |-> "invalid"]
Absent == [kind |-> "absent"]
Unreadable == [kind |-> "unreadable"]
Text(doc) == [kind |-> "text", doc |-> doc]

\* JSON.stringify followed by JSON.parse: a property holding undefined is
\* left out of the text, at every depth; strings come back as they were.
\* A serialisation that writes the top level only: nested objects come back
\* empty.
StringifyShallow(v) ==
    IF v.t = "obj"
    THEN Obj([p \in {q \in DOMAIN v.f : v.f[q] # Undefined} |->
                IF v.f[p].t = "obj" THEN Obj(EmptyProps) ELSE v.f[p]])
    ELSE v

RECURSIVE Stringify(_)
Stringify(v) ==
    IF v.t = "obj"
    THEN Obj([p \in {q \in DOMAIN v.f : v.f[q] # Undefined} |-> Stringify(v.f[p])])
    ELSE v

EmptyCache(now) ==
    Obj([version |-> CACHE_VERSION,
         lastGenerated |-> Date(now),
         components |-> Obj(EmptyProps)])

\* Whether loadCache returns a new empty cache (and so reads the clock):
\* no file; readFileSync throws; JSON.parse throws; cache.version throws
\* (the document is null); the versions differ.
loadCacheStartsFresh(f) ==
    \/ f.kind = "absent"
    \/ f.kind = "unreadable"
    \/ f.doc = Invalid
    \/ f.doc = JNull
    \/ Get(f.doc, "version") # CACHE_VERSION

\* A loadCache that never reads the file.
loadCacheAlwaysEmpty(f, now) == EmptyCache(now)

\* A loadCache without the version check.
loadCacheNoVersionCheck(f, now) ==
    IF f.kind # "text" \/ f.doc = Invalid \/ f.doc = JNull
    THEN EmptyCache(now) ELSE f.doc

loadCache(f, now) ==
    IF loadCacheStartsFresh(f) THEN EmptyCache(now) ELSE f.doc

\* saveCache sets cache.lastGenerated before the try block.
saveCacheStamp(c, now) == Put(c, "lastGenerated", Date(now))

\* What the try block of saveCache leaves on disk.
\*   "written"       mkdirSync (if needed) and writeFileSync returned
\*   "failedBefore"  mkdirSync threw, or writeFileSync threw opening the file
\*   "failedDuring"  writeFileSync threw after opening the file with flag "w",
\*                   which truncates it: a cut-off text is left
SaveOutcomes == {"written", "failedBefore", "failedDuring"}

\* A save that keeps the records found in the file next to the ones it writes.
saveCacheFileMerging(c, f, now, outcome) ==
    LET stamped == Stringify(saveCacheStamp(c, now))
        onDisk == IF f.kind = "text" THEN Get(f.doc, "components") ELSE Undefined
        mine == Get(stamped, "components")
        merged == IF onDisk.t = "obj" /\ mine.t = "obj"
                  THEN Obj([k \in DOMAIN onDisk.f \cup DOMAIN mine.f |->
                              IF k \in DOMAIN mine.f THEN mine.f[k] ELSE onDisk.f[k]])
                  ELSE mine
    IN  CASE outcome = "written" -> Text(Put(stamped, "components", merged))
          [] outcome = "failedBefore" -> f
          [] outcome = "failedDuring" -> Text(Invalid)

saveCacheFile(c, f, now, outcome) ==
    CASE outcome = "written" -> Text(Stringify(saveCacheStamp(c, now)))
      [] outcome = "failedBefore" -> f
      [] outcome = "failedDuring" -> Text(Invalid)

-----------------------------------------------------------------------------
(* What the cache file can hold before the first call *)

HashPairs == ImplHashes \X IfaceHashes

\* A record as a saved cache file holds it (no description was stored).
StoredRecord(pair) == Obj([implementationHash |-> pair[1], interfaceHash |-> pair[2]])

\* Documents of the current version with a well-formed records map.
ValidDocs ==
    { Obj([version |-> CACHE_VERSION,
           lastGenerated |-> Date(0),
           components |-> Obj([k \in ks |-> StoredRecord(pairOf[k])])]) :
        ks \in SUBSET ComponentKeys, pairOf \in [ComponentKeys -> {<<Str("h1"), Str("h2")>>}] }

\* Documents loadCache does not take for a cache, or takes without a
\* well-formed records map.
OddDocs ==
    { Invalid, JNull, JNum,
      Obj(EmptyProps),
      Obj([version |-> OtherVersion, lastGenerated |-> Date(0),
           components |-> Obj([k \in ComponentKeys |-> StoredRecord(<<Str("h1"), Str("h2")>>)])]),
      Obj([version |-> CACHE_VERSION, lastGenerated |-> Date(0)]),
      Obj([version |-> CACHE_VERSION, lastGenerated |-> Date(0), components |-> JNull]) }

AnyFiles == {Absent, Unreadable} \cup {Text(d) : d \in ValidDocs \cup OddDocs}

NoResult == [op |-> "none"]
NoRun == [pc |-> "idle"]
NoPrev == [saved |-> FALSE]
NoProject == [files |-> <<>>]
NoIndex == [built |-> FALSE]
NoUsages == [op |-> "none"]
NoDeclaration == [versions |-> <<>>]

-----------------------------------------------------------------------------
(* The cache API called as a client (the tests, generate) calls it:        *)
(* loadCache, needsRegeneration, updateCache and saveCache in any order on *)
(* the cache value a load returned.                                        *)

InitApi ==
    /\ file \in AnyFiles
    /\ clock = 1
    /\ cache = Undefined
    /\ result = NoResult
    /\ config = [similarityThreshold |-> DefaultThreshold]
    /\ prev = NoPrev
    /\ run = NoRun
    /\ project = NoProject
    /\ index = NoIndex
    /\ usages = NoUsages
    /\ declaration = NoDeclaration

ApiLoadCache ==
    /\ loadCacheStartsFresh(file) => clock < MaxClock
    /\ cache' = loadCache(file, clock)
    /\ clock' = IF loadCacheStartsFresh(file) THEN clock + 1 ELSE clock
    /\ result' = [op |-> "loadCache", from |-> file]
    /\ UNCHANGED <<file, config, prev, run, project, index, usages, declaration>>

ApiNeedsRegeneration ==
    /\ cache # Undefined
    /\ \E key \in ComponentKeys, pair \in HashPairs, threshold \in Thresholds :
          result' = [op |-> "needsRegeneration", key |-> key, pair |-> pair,
                     threshold |-> threshold,
                     returned |-> needsRegeneration(key, pair[1], pair[2], cache, threshold)]
    /\ UNCHANGED <<file, clock, cache, config, prev, run, project, index, usages, declaration>>

\* updateCache(cache, key, implHash, interfaceHash): no description is
\* passed, as in generate and in the tests.
ApiUpdateCache ==
    /\ cache # Undefined
    /\ \E key \in ComponentKeys, pair \in HashPairs :
          IF updateCacheThrows(cache)
          THEN /\ result' = [op |-> "updateCache", threw |-> TRUE]
               /\ UNCHANGED cache
          ELSE /\ cache' = updateCache(cache, key, pair[1], pair[2], Undefined, clock)
               /\ result' = [op |-> "updateCache", threw |-> FALSE]
    /\ UNCHANGED <<file, clock, config, prev, run, project, index, usages, declaration>>

ApiSaveCache ==
    /\ cache # Undefined
    /\ clock < MaxClock
    /\ \E outcome \in SaveOutcomes :
          /\ cache' = saveCacheStamp(cache, clock)
          /\ file' = saveCacheFile(cache, file, clock, outcome)
          /\ result' = [op |-> "saveCache", outcome |-> outcome, threw |-> FALSE]
    /\ clock' = clock + 1
    /\ UNCHANGED <<config, prev, run, project, index, usages, declaration>>

NextApi == ApiLoadCache \/ ApiNeedsRegeneration \/ ApiUpdateCache \/ ApiSaveCache

SpecApi == InitApi /\ [][NextApi]_vars

\* updateCache(cache, key, implHash, interfaceHash, description?): with and
\* without a description; replaced is the record the key had before.
ApiUpdateCacheDescribed ==
    /\ cache # Undefined
    /\ \E key \in ComponentKeys, pair \in HashPairs, description \in Descriptions :
          /\ description # Undefined => clock < MaxClock
          /\ IF updateCacheThrows(cache)
             THEN /\ result' = [op |-> "updateCache", threw |-> TRUE]
                  /\ UNCHANGED <<cache, clock>>
             ELSE /\ cache' = updateCache(cache, key, pair[1], pair[2], description, clock)
                  /\ clock' = IF description # Undefined THEN clock + 1 ELSE clock
                  /\ result' = [op |-> "updateCache", threw |-> FALSE, key |-> key,
                                pair |-> pair, description |-> description,
                                replaced |-> Cached(cache, key)]
    /\ UNCHANGED <<file, config, prev, run, project, index, usages, declaration>>

NextDescribed == ApiLoadCache \/ ApiUpdateCacheDescribed

SpecDescribed == InitApi /\ [][NextDescribed]_vars

-----------------------------------------------------------------------------
(* generator.ts: CatalogGenerator.generate, as far as the cache goes.      *)
(* components is what extractComponents returned: one ComponentMetadata    *)
(* per exported declaration, in order; two declarations of one exported    *)
(* name (overloads, merged declarations) give two entries with one key.    *)

Component(filePath, name, pair) ==
    [filePath |-> filePath, name |-> name,
     implementationHash |-> pair[1], interfaceHash |-> pair[2]]

\* `${c.filePath}:${c.name}`
ComponentKey(c) == <<c.filePath, c.name>>

\* The declarations the source tree can hold in a run: three versions of
\* Button (as first seen, body changed, props changed) and Card.
Declarations ==
    { Component("src/Button.tsx", "Button", pair) :
        pair \in {<<Str("h1"), Str("h2")>>, <<Str("h1x"), Str("h2")>>, <<Str("h1"), Str("h2x")>>} }
    \cup { Component("src/Card.tsx", "Card", <<Str("h1"), Str("h2")>>) }

Catalogs == UNION { [1..n -> Declarations] : n \in 0..MaxCatalog }

\* components.filter(c => needsRegeneration(key, ...)): the value returned
\* per component, and whether a call threw.
FilterThrows(components, c) == components # <<>> /\ IndexThrows(c)

Decisions(components, c, threshold) ==
    [i \in DOMAIN components |->
        needsRegeneration(ComponentKey(components[i]),
                          components[i].implementationHash,
                          components[i].interfaceHash, c, threshold).value]

\* keysToUpdate = new Set(componentsToProcess.map(key))
KeysToUpdate(components, force, decisions) ==
    { ComponentKey(components[i]) :
        i \in {j \in DOMAIN components : force \/ decisions[j]} }

\* The loop over components: updateCache for each one whose key is in
\* keysToUpdate, in order.
\* A loop that updates the cache for every component, selected or not.
RECURSIVE UpdateLoopAll(_, _, _, _, _)
UpdateLoopAll(c, components, keysToUpdate, i, now) ==
    IF i > Len(components) THEN c
    ELSE UpdateLoopAll(
           updateCache(c, ComponentKey(components[i]),
                       components[i].implementationHash,
                       components[i].interfaceHash, Undefined, now),
           components, keysToUpdate, i + 1, now)

RECURSIVE UpdateLoop(_, _, _, _, _)
UpdateLoop(c, components, keysToUpdate, i, now) ==
    IF i > Len(components) THEN c
    ELSE UpdateLoop(
           IF ComponentKey(components[i]) \in keysToUpdate
           THEN updateCache(c, ComponentKey(components[i]),
                            components[i].implementationHash,
                            components[i].interfaceHash, Undefined, now)
           ELSE c,
           components, keysToUpdate, i + 1, now)

UpdateLoopThrows(c, keysToUpdate) == keysToUpdate # {} /\ updateCacheThrows(c)

RunFiles ==
    { Absent,
      Text(Obj([version |-> CACHE_VERSION, lastGenerated |-> Date(0),
                components |-> Obj([k \in {<<"src/Button.tsx", "Button">>} |->
                                      StoredRecord(<<Str("h1"), Str("h2")>>)])])),
      Text(Obj([version |-> CACHE_VERSION, lastGenerated |-> Date(0),
                components |-> Obj([k \in ComponentKeys |->
                                      StoredRecord(<<Str("h1x"), Str("h2")>>)])])),
      Text(Obj([version |-> CACHE_VERSION, lastGenerated |-> Date(0)])) }

Init ==
    /\ file \in RunFiles
    /\ clock = 1
    /\ cache = Undefined
    /\ result = NoResult
    /\ config \in [similarityThreshold : RunThresholds]
    /\ prev = NoPrev
    /\ run = [pc |-> "idle", n |-> 0]
    /\ project = NoProject
    /\ index = NoIndex
    /\ usages = NoUsages
    /\ declaration = NoDeclaration

\* generate(force) is called; findSourceFiles and extractComponents return.
GenExtract ==
    /\ run.pc \in {"idle", "done", "failed"}
    /\ run.n < MaxRuns
    /\ \E force \in BOOLEAN, components \in Catalogs :
          run' = [pc |-> "extracted", n |-> run.n + 1, force |-> force,
                  components |-> components]
    /\ prev' = IF run.pc = "done"
               THEN [saved |-> run.saveOutcome = "written",
                     declarations |-> {run.components[i] : i \in DOMAIN run.components}]
               ELSE NoPrev
    /\ cache' = Undefined
    /\ UNCHANGED <<file, clock, result, config, project, index, usages, declaration>>

\* const cache = loadCache(this.config.cacheDir)
GenLoadCache ==
    /\ run.pc = "extracted"
    /\ cache' = loadCache(file, clock)
    /\ clock' = IF loadCacheStartsFresh(file) THEN clock + 1 ELSE clock
    /\ run' = [run EXCEPT !.pc = "loaded"]
    /\ UNCHANGED <<file, result, config, prev, project, index, usages, declaration>>

\* componentsToProcess and keysToUpdate; a TypeError thrown by
\* needsRegeneration rejects the promise generate returned.
GenSelect ==
    /\ run.pc = "loaded"
    /\ IF ~run.force /\ FilterThrows(run.components, cache)
       THEN run' = [pc |-> "failed", n |-> run.n]
       ELSE LET decisions == IF run.force THEN <<>>
                             ELSE Decisions(run.components, cache, config.similarityThreshold)
            IN
            run' = [pc |-> "selected", n |-> run.n, force |-> run.force,
                    components |-> run.components,
                    decisions |-> decisions,
                    keysToUpdate |-> KeysToUpdate(run.components, run.force, decisions)]
    /\ UNCHANGED <<file, clock, cache, result, config, prev, project, index, usages, declaration>>

\* An update loop that writes the cache file as soon as it has updated the
\* cache object.
GenUpdateWriteThrough ==
    /\ run.pc = "selected"
    /\ IF UpdateLoopThrows(cache, run.keysToUpdate)
       THEN /\ run' = [pc |-> "failed", n |-> run.n]
            /\ UNCHANGED <<cache, file>>
       ELSE /\ cache' = UpdateLoop(cache, run.components, run.keysToUpdate, 1, clock)
            /\ file' = Text(Stringify(cache'))
            /\ run' = [run EXCEPT !.pc = "updated"]
    /\ UNCHANGED <<clock, result, config, prev, project, index, usages, declaration>>

\* trackUsages, findStories (no use of the cache), then the loop that adds
\* every component to the writer and updates the cache for the selected keys.
GenUpdate ==
    /\ run.pc = "selected"
    /\ IF UpdateLoopThrows(cache, run.keysToUpdate)
       THEN /\ run' = [pc |-> "failed", n |-> run.n]
            /\ UNCHANGED cache
       ELSE /\ cache' = UpdateLoop(cache, run.components, run.keysToUpdate, 1, clock)
            /\ run' = [run EXCEPT !.pc = "updated"]
    /\ UNCHANGED <<file, clock, result, config, prev, project, index, usages, declaration>>

\* A saveCache without its try/catch: a failed write ends the run.
GenSaveCacheNoCatch ==
    /\ run.pc = "updated"
    /\ \E outcome \in SaveOutcomes :
          /\ cache' = saveCacheStamp(cache, clock)
          /\ file' = saveCacheFile(cache, file, clock, outcome)
          /\ run' = IF outcome = "written"
                    THEN [pc |-> "done", n |-> run.n, force |-> run.force,
                          components |-> run.components, decisions |-> run.decisions,
                          keysToUpdate |-> run.keysToUpdate, saveOutcome |-> outcome]
                    ELSE [pc |-> "failed", n |-> run.n]
    /\ clock' = clock + 1
    /\ UNCHANGED <<result, config, prev, project, index, usages, declaration>>

\* writer.finalize(); saveCache(cache, this.config.cacheDir); the run ends.
GenSaveCache ==
    /\ run.pc = "updated"
    /\ \E outcome \in SaveOutcomes :
          /\ cache' = saveCacheStamp(cache, clock)
          /\ file' = saveCacheFile(cache, file, clock, outcome)
          /\ run' = [pc |-> "done", n |-> run.n, force |-> run.force,
                     components |-> run.components, decisions |-> run.decisions,
                     keysToUpdate |-> run.keysToUpdate, saveOutcome |-> outcome]
    /\ clock' = clock + 1
    /\ UNCHANGED <<result, config, prev, project, index, usages, declaration>>

Next == GenExtract \/ GenLoadCache \/ GenSelect \/ GenUpdate \/ GenSaveCache

Spec == Init /\ [][Next]_vars

\* The process is stopped from outside while generate is between two of its
\* steps: the run ends there and its cache object is dropped with it.
GenAbort ==
    /\ run.pc \in {"extracted", "loaded", "selected", "updated"}
    /\ run' = [pc |-> "failed", n |-> run.n, stoppedAt |-> run.pc]
    /\ UNCHANGED <<file, clock, cache, result, config, prev, project, index, usages,
                   declaration>>

NextAbort == Next \/ GenAbort

SpecAbort == Init /\ [][NextAbort]_vars

-----------------------------------------------------------------------------
(* Two runs of generate against the same cache location.  Each run holds   *)
(* its own cache object (cache[p]) and shares the file and the clock with  *)
(* the other one; nothing locks the file.  A run starts here when its      *)
(* components have been extracted.                                         *)

RunIds == 1..2

RaceCatalogs == UNION { [1..n -> Declarations] : n \in 0..MaxRaceCatalog }

InitRace ==
    /\ file \in RunFiles
    /\ clock = 1
    /\ cache = [p \in RunIds |-> Undefined]
    /\ result = NoResult
    /\ config = [similarityThreshold |-> DefaultThreshold]
    /\ prev = NoPrev
    /\ run \in [RunIds -> {[pc |-> "extracted", force |-> force,
                            components |-> components] :
                              force \in BOOLEAN, components \in RaceCatalogs}]
    /\ project = NoProject
    /\ index = NoIndex
    /\ usages = NoUsages
    /\ declaration = NoDeclaration

\* const cache = loadCache(this.config.cacheDir)
RaceLoadCache(p) ==
    /\ run[p].pc = "extracted"
    /\ cache' = [cache EXCEPT ![p] = loadCache(file, clock)]
    /\ clock' = IF loadCacheStartsFresh(file) THEN clock + 1 ELSE clock
    /\ run' = [run EXCEPT ![p].pc = "loaded"]
    /\ UNCHANGED <<file, result, config, prev, project, index, usages, declaration>>

\* componentsToProcess and keysToUpdate
RaceSelect(p) ==
    /\ run[p].pc = "loaded"
    /\ IF ~run[p].force /\ FilterThrows(run[p].components, cache[p])
       THEN run' = [run EXCEPT ![p] = [pc |-> "failed"]]
       ELSE LET decisions ==
                    IF run[p].force THEN <<>>
                    ELSE Decisions(run[p].components, cache[p],
                                   config.similarityThreshold)
            IN  run' = [run EXCEPT ![p] =
                          [pc |-> "selected", force |-> run[p].force,
                           components |-> run[p].components,
                           keysToUpdate |->
                              KeysToUpdate(run[p].components, run[p].force, decisions)]]
    /\ UNCHANGED <<file, clock, cache, result, config, prev, project, index, usages,
                   declaration>>

\* the loop that updates the run's cache object for the selected keys
RaceUpdate(p) ==
    /\ run[p].pc = "selected"
    /\ IF UpdateLoopThrows(cache[p], run[p].keysToUpdate)
       THEN /\ run' = [run EXCEPT ![p] = [pc |-> "failed"]]
            /\ UNCHANGED cache
       ELSE /\ cache' = [cache EXCEPT ![p] =
                           UpdateLoop(cache[p], run[p].components,
                                      run[p].keysToUpdate, 1, clock)]
            /\ run' = [run EXCEPT ![p].pc = "updated"]
    /\ UNCHANGED <<file, clock, result, config, prev, project, index, usages,
                   declaration>>

\* saveCache(cache, this.config.cacheDir); savedAt is the clock it read
RaceSaveCache(p) ==
    /\ run[p].pc = "updated"
    /\ \E outcome \in SaveOutcomes :
          /\ cache' = [cache EXCEPT ![p] = saveCacheStamp(cache[p], clock)]
          /\ file' = saveCacheFile(cache[p], file, clock, outcome)
          /\ run' = [run EXCEPT ![p] =
                       [pc |-> "done", force |-> run[p].force,
                        components |-> run[p].components,
                        keysToUpdate |-> run[p].keysToUpdate,
                        saveOutcome |-> outcome, savedAt |-> clock]]
    /\ clock' = clock + 1
    /\ UNCHANGED <<result, config, prev, project, index, usages, declaration>>

NextRace ==
    \E p \in RunIds :
        RaceLoadCache(p) \/ RaceSelect(p) \/ RaceUpdate(p) \/ RaceSaveCache(p)

SpecRace == InitRace /\ [][NextRace]_vars

-----------------------------------------------------------------------------
(* File paths.  A path is the sequence of its segments and a segment is a  *)
(* base name followed by its extensions, so that the concatenations of the *)
(* resolver (resolvedPath + ".ts", resolvedPath + "/index.ts") and the     *)
(* conversions between absolute and cwd-relative paths are computed.       *)

Name(base) == [base |-> base, exts |-> <<>>]
FileName(base, ext) == [base |-> base, exts |-> <<ext>>]
Dot == Name(".")
DotDot == Name("..")
Globstar == Name("**")
EmptySegment == Name("")

\* process.cwd()
Cwd == <<Name("p")>>

\* path.dirname
dirname(p) == SubSeq(p, 1, Len(p) - 1)

\* path.resolve(dir, specifier)
RECURSIVE resolve(_, _, _)
resolve(dir, specifier, i) ==
    IF i > Len(specifier) THEN dir
    ELSE IF specifier[i] = Dot THEN resolve(dir, specifier, i + 1)
    ELSE IF specifier[i] = DotDot THEN resolve(dirname(dir), specifier, i + 1)
    ELSE resolve(Append(dir, specifier[i]), specifier, i + 1)

\* path.relative(from, to) with "/" separators
relative(from, to) ==
    LET shorter == IF Len(from) < Len(to) THEN Len(from) ELSE Len(to)
        shared == {k \in 0..shorter : SubSeq(from, 1, k) = SubSeq(to, 1, k)}
        k == CHOOSE m \in shared : \A j \in shared : j <= m
    IN  [i \in 1..(Len(from) - k) |-> DotDot] \o SubSeq(to, k + 1, Len(to))

\* resolvedPath + ext
WithSuffix(p, ext) ==
    IF ext = "" THEN p
    ELSE IF p = <<>> THEN <<FileName("", ext)>>
    ELSE [p EXCEPT ![Len(p)].exts = Append(@, ext)]

extensions == <<".ts", ".tsx", ".js", ".jsx", "">>
indexExtensions ==
    <<FileName("index", ".ts"), FileName("index", ".tsx"),
      FileName("index", ".js"), FileName("index", ".jsx")>>

NotResolved == [found |-> FALSE]
Resolved(p) == [found |-> TRUE, path |-> p]

startsWithAnything(moduleSpecifier) == TRUE

startsWithDot(moduleSpecifier) ==
    Len(moduleSpecifier) > 0 /\ moduleSpecifier[1] \in {Dot, DotDot}

\* resolveImportPath; sourceFilePaths are the paths project.getSourceFile
\* answers for.
resolveImportPath(currentFilePath, moduleSpecifier, sourceFilePaths) ==
    LET resolvedPath == resolve(dirname(currentFilePath), moduleSpecifier, 1)
        byExt == {i \in DOMAIN extensions :
                     WithSuffix(resolvedPath, extensions[i]) \in sourceFilePaths}
        byIndex == {i \in DOMAIN indexExtensions :
                     Append(resolvedPath, indexExtensions[i]) \in sourceFilePaths}
        First(S) == CHOOSE i \in S : \A j \in S : i <= j
    IN  IF ~startsWithDot(moduleSpecifier) THEN NotResolved
        ELSE IF byExt # {} THEN Resolved(WithSuffix(resolvedPath, extensions[First(byExt)]))
        ELSE IF byIndex # {} THEN Resolved(Append(resolvedPath, indexExtensions[First(byIndex)]))
        ELSE NotResolved

\* A path segment that a globstar does not cross: ".", ".." and dot files.
Hidden(segment) ==
    \/ segment \in {Dot, DotDot}
    \/ segment.base = "" /\ segment.exts # <<>>

\* One path part against one pattern part: a literal part, or "*" followed
\* by literal extensions ("*.stories.tsx"), where "*" stands for a non-empty
\* text that does not begin with a dot.
IsSuffix(exts, all) ==
    Len(exts) <= Len(all) /\ SubSeq(all, Len(all) - Len(exts) + 1, Len(all)) = exts

segmentMatch(part, patternPart) ==
    IF patternPart.base = "*"
    THEN part.base # "" /\ IsSuffix(patternPart.exts, part.exts)
    ELSE part = patternPart

\* minimatch for patterns made of literal segments, "*" and "**".
RECURSIVE matchOne(_, _, _, _)
matchOne(fileParts, pattern, fi, pi) ==
    IF pi > Len(pattern) THEN fi > Len(fileParts)
    ELSE IF pattern[pi] = Globstar
    THEN \E k \in fi..(Len(fileParts) + 1) :
            /\ \A j \in fi..(k - 1) : ~Hidden(fileParts[j])
            /\ matchOne(fileParts, pattern, k, pi + 1)
    ELSE /\ fi <= Len(fileParts)
         /\ segmentMatch(fileParts[fi], pattern[pi])
         /\ matchOne(fileParts, pattern, fi + 1, pi + 1)

\* an absolute path "/p/src/x.ts" splits into "", "p", "src", "x.ts"
minimatch(filePath, pattern) == matchOne(<<EmptySegment>> \o filePath, pattern, 1, 1)

isBarrelFileNever(filePath, barrelPatterns) == FALSE

isBarrelFile(filePath, barrelPatterns) ==
    \E i \in DOMAIN barrelPatterns : minimatch(filePath, barrelPatterns[i])

\* String.prototype.localeCompare on paths: the collation order of the
\* tokens that occur in the paths of the model, compared left to right.
CollationOrder ==
    <<"/", ".js", ".jsx", ".ts", ".tsx", "", "..", "App", "Button", "Home",
      "index", "p", "src">>

RECURSIVE PathTokens(_)
PathTokens(p) ==
    IF p = <<>> THEN <<>>
    ELSE IF Len(p) = 1 THEN <<p[1].base>> \o p[1].exts
    ELSE <<p[1].base>> \o p[1].exts \o <<"/">> \o PathTokens(Tail(p))

CollationKey(p) ==
    [i \in DOMAIN PathTokens(p) |->
        CHOOSE r \in DOMAIN CollationOrder : CollationOrder[r] = PathTokens(p)[i]]

localeCompare(a, b) ==
    LET ka == CollationKey(a)
        kb == CollationKey(b)
        shorter == IF Len(ka) < Len(kb) THEN Len(ka) ELSE Len(kb)
        differ == {i \in 1..shorter : ka[i] # kb[i]}
        first == CHOOSE i \in differ : \A j \in differ : i <= j
    IN  IF differ # {} THEN (IF ka[first] < kb[first] THEN -1 ELSE 1)
        ELSE IF Len(ka) < Len(kb) THEN -1
        ELSE IF Len(ka) > Len(kb) THEN 1
        ELSE 0

-----------------------------------------------------------------------------
(* Source files as the index builder reads them: the import declarations   *)
(* (import i stands on line i) and the identifiers of the rest of the file *)
(* in document order.                                                      *)

Named(name) == [name |-> name, alias |-> <<>>]
NamedAs(name, alias) == [name |-> name, alias |-> <<alias>>]
ImportDeclaration(moduleSpecifier, defaultImport, namedImports) ==
    [moduleSpecifier |-> moduleSpecifier,
     defaultImport |-> defaultImport,
     namedImports |-> namedImports]
Occurrence(text, line) == [text |-> text, line |-> line]
SourceFile(filePath, imports, body) ==
    [filePath |-> filePath, imports |-> imports, body |-> body]

\* the Identifier nodes of one import declaration
RECURSIVE NamedIdentifiers(_)
NamedIdentifiers(namedImports) ==
    IF namedImports = <<>> THEN <<>>
    ELSE <<namedImports[1].name>> \o namedImports[1].alias
             \o NamedIdentifiers(Tail(namedImports))

ImportIdentifiers(importDecl, line) ==
    LET texts == importDecl.defaultImport \o NamedIdentifiers(importDecl.namedImports)
    IN  [i \in DOMAIN texts |-> [text |-> texts[i], line |-> line, inImport |-> TRUE]]

RECURSIVE ImportsIdentifiers(_, _)
ImportsIdentifiers(imports, i) ==
    IF i > Len(imports) THEN <<>>
    ELSE ImportIdentifiers(imports[i], i) \o ImportsIdentifiers(imports, i + 1)

\* sourceFile.getDescendantsOfKind(SyntaxKind.Identifier)
Identifiers(sourceFile) ==
    ImportsIdentifiers(sourceFile.imports, 1) \o
    [i \in DOMAIN sourceFile.body |->
        [text |-> sourceFile.body[i].text,
         line |-> sourceFile.body[i].line,
         inImport |-> FALSE]]

\* defaultImport.getText() and namedImport.getName() of each named import
ImportedSymbols(importDecl) ==
    importDecl.defaultImport \o
    [i \in DOMAIN importDecl.namedImports |-> importDecl.namedImports[i].name]

UsageReference(filePath, line) == [filePath |-> filePath, line |-> line]

\* the references one symbol name gets from the identifiers of a file
SymbolUsages(sourceFile, symbolName) ==
    LET hits == SelectSeq(Identifiers(sourceFile),
                          LAMBDA id : id.text = symbolName /\ ~id.inImport)
    IN  [i \in DOMAIN hits |->
            UsageReference(relative(Cwd, sourceFile.filePath), hits[i].line)]

EmptyIndex == [key \in {} |-> <<>>]

Push(idx, key, refs) ==
    IF key \in DOMAIN idx THEN [idx EXCEPT ![key] = @ \o refs]
    ELSE idx @@ (key :> refs)

RECURSIVE ScanSymbols(_, _, _, _, _)
ScanSymbols(idx, sourceFile, resolvedPath, importedSymbols, i) ==
    IF i > Len(importedSymbols) THEN idx
    ELSE ScanSymbols(Push(idx, <<resolvedPath, importedSymbols[i]>>,
                          SymbolUsages(sourceFile, importedSymbols[i])),
                     sourceFile, resolvedPath, importedSymbols, i + 1)

RECURSIVE ScanImports(_, _, _, _)
ScanImports(idx, sourceFile, sourceFilePaths, i) ==
    IF i > Len(sourceFile.imports) THEN idx
    ELSE LET importDecl == sourceFile.imports[i]
             resolvedPath == resolveImportPath(sourceFile.filePath,
                                               importDecl.moduleSpecifier,
                                               sourceFilePaths)
         IN  IF ~resolvedPath.found
             THEN ScanImports(idx, sourceFile, sourceFilePaths, i + 1)
             ELSE ScanImports(ScanSymbols(idx, sourceFile, resolvedPath.path,
                                          ImportedSymbols(importDecl), 1),
                              sourceFile, sourceFilePaths, i + 1)

SourceFilePaths(sourceFiles) == {sourceFiles[i].filePath : i \in DOMAIN sourceFiles}

RECURSIVE ScanFiles(_, _, _, _)
ScanFiles(idx, sourceFiles, barrelPatterns, i) ==
    IF i > Len(sourceFiles) THEN idx
    ELSE IF isBarrelFile(sourceFiles[i].filePath, barrelPatterns)
    THEN ScanFiles(idx, sourceFiles, barrelPatterns, i + 1)
    ELSE ScanFiles(ScanImports(idx, sourceFiles[i], SourceFilePaths(sourceFiles), 1),
                   sourceFiles, barrelPatterns, i + 1)

KeepAllUsages(usageList) == usageList

\* Array.from(new Map(usages.map(u => [`${u.filePath}:${u.line}`, u])).values())
RECURSIVE DedupUsages(_)
DedupUsages(usageList) ==
    IF usageList = <<>> THEN <<>>
    ELSE LET front == DedupUsages(SubSeq(usageList, 1, Len(usageList) - 1))
             last == usageList[Len(usageList)]
         IN  IF \E j \in DOMAIN front : front[j] = last
             THEN front
             ELSE Append(front, last)

compareUsages(a, b) ==
    IF localeCompare(a.filePath, b.filePath) # 0
    THEN localeCompare(a.filePath, b.filePath)
    ELSE a.line - b.line

KeepScanOrder(usageList) == usageList

\* Array.prototype.sort (stable) with compareUsages
RECURSIVE InsertUsage(_, _)
InsertUsage(sorted, u) ==
    IF sorted = <<>> THEN <<u>>
    ELSE IF compareUsages(u, sorted[Len(sorted)]) < 0
    THEN Append(InsertUsage(SubSeq(sorted, 1, Len(sorted) - 1), u),
                sorted[Len(sorted)])
    ELSE Append(sorted, u)

RECURSIVE SortUsages(_)
SortUsages(usageList) ==
    IF usageList = <<>> THEN <<>>
    ELSE InsertUsage(SortUsages(SubSeq(usageList, 1, Len(usageList) - 1)),
                     usageList[Len(usageList)])

buildImportIndex(sourceFiles, barrelPatterns) ==
    LET scanned == ScanFiles(EmptyIndex, sourceFiles, barrelPatterns, 1)
    IN  [key \in DOMAIN scanned |-> SortUsages(DedupUsages(scanned[key]))]

trackUsagesFromIndex(symbolName, exportFilePath, importIndex) ==
    IF <<exportFilePath, symbolName>> \in DOMAIN importIndex
    THEN importIndex[<<exportFilePath, symbolName>>]
    ELSE <<>>

\* The scan trackUsages made for one symbol before the index replaced it:
\* namedImports.some(ni => ni.getName() === symbolName) ||
\* (defaultImport && defaultImport.getText() === symbolName)
importsSymbol(importDecl, symbolName) ==
    \E i \in DOMAIN ImportedSymbols(importDecl) :
        ImportedSymbols(importDecl)[i] = symbolName

\* fileUsages of one source file
RECURSIVE FileUsages(_, _, _, _, _)
FileUsages(sourceFile, sourceFilePaths, symbolName, exportFilePath, i) ==
    IF i > Len(sourceFile.imports) THEN <<>>
    ELSE LET importDecl == sourceFile.imports[i]
             resolvedPath == resolveImportPath(sourceFile.filePath,
                                               importDecl.moduleSpecifier,
                                               sourceFilePaths)
             found == /\ resolvedPath.found
                      /\ resolvedPath.path = exportFilePath
                      /\ importsSymbol(importDecl, symbolName)
         IN  (IF found THEN SymbolUsages(sourceFile, symbolName) ELSE <<>>) \o
             FileUsages(sourceFile, sourceFilePaths, symbolName, exportFilePath, i + 1)

\* the results of Promise.all, pushed in the order of the source files
RECURSIVE ScanForSymbol(_, _, _, _, _)
ScanForSymbol(sourceFiles, symbolName, exportFilePath, barrelPatterns, i) ==
    IF i > Len(sourceFiles) THEN <<>>
    ELSE (IF \/ sourceFiles[i].filePath = exportFilePath
             \/ isBarrelFile(sourceFiles[i].filePath, barrelPatterns)
          THEN <<>>
          ELSE FileUsages(sourceFiles[i], SourceFilePaths(sourceFiles),
                          symbolName, exportFilePath, 1)) \o
         ScanForSymbol(sourceFiles, symbolName, exportFilePath, barrelPatterns, i + 1)

trackUsages(sourceFiles, symbolName, exportFilePath, barrelPatterns) ==
    SortUsages(DedupUsages(
        ScanForSymbol(sourceFiles, symbolName, exportFilePath, barrelPatterns, 1)))

-----------------------------------------------------------------------------
(* The projects the index is built for: src/Button.tsx defines Button;     *)
(* src/App.tsx imports and uses it in every way the bounds allow;          *)
(* src/Home.tsx uses it once; src/index.ts imports and re-exports it.      *)

ButtonPath == Cwd \o <<Name("src"), FileName("Button", ".tsx")>>
AppPath == Cwd \o <<Name("src"), FileName("App", ".tsx")>>
HomePath == Cwd \o <<Name("src"), FileName("Home", ".tsx")>>
IndexPath == Cwd \o <<Name("src"), FileName("index", ".ts")>>

\* "./Button", "." and "react"
SpecifierButton == <<Dot, Name("Button")>>
SpecifierDir == <<Dot>>
SpecifierReact == <<Name("react")>>

ImportButton == ImportDeclaration(SpecifierButton, <<>>, <<Named("Button")>>)

AppImportDeclarations ==
    { ImportButton,
      ImportDeclaration(SpecifierButton, <<>>, <<NamedAs("Button", "B")>>),
      ImportDeclaration(SpecifierButton, <<"Button">>, <<>>),
      ImportDeclaration(SpecifierDir, <<>>, <<Named("Button")>>),
      ImportDeclaration(SpecifierReact, <<>>, <<Named("Button")>>) }

SymbolNames == {"Button", "B"}

\* identifiers of a file body, in document order: the first one on line 10,
\* the following ones on line 22
Bodies ==
    { [i \in DOMAIN texts |-> Occurrence(texts[i], IF i = 1 THEN 10 ELSE 22)] :
        texts \in UNION { [1..n -> SymbolNames] : n \in 0..MaxUses } }

AppFiles ==
    { SourceFile(AppPath, imports, body) :
        imports \in UNION { [1..n -> AppImportDeclarations] : n \in 0..MaxImports },
        body \in Bodies }

\* the definition file, without and with an import of itself
ButtonFiles ==
    { SourceFile(ButtonPath, <<>>, <<Occurrence("Button", 3)>>),
      SourceFile(ButtonPath, <<ImportButton>>, <<Occurrence("Button", 3)>>) }

HomeFile == SourceFile(HomePath, <<ImportButton>>, <<Occurrence("Button", 7)>>)
IndexFile == SourceFile(IndexPath, <<ImportButton>>, <<Occurrence("Button", 2)>>)

Reverse(s) == [i \in DOMAIN s |-> s[Len(s) + 1 - i]]

\* getSourceFiles() lists the files in the order they were added
Projects ==
    LET listings == { <<b, a, HomeFile, IndexFile>> : b \in ButtonFiles, a \in AppFiles }
    IN  { [files |-> l] : l \in listings } \cup { [files |-> Reverse(l)] : l \in listings }

\* barrelFilePatterns: none, "**/index.ts", "src/index.ts"
PatternSets ==
    { <<>>,
      << <<Globstar, FileName("index", ".ts")>> >>,
      << <<Name("src"), FileName("index", ".ts")>> >> }

InitUsage ==
    /\ file = Absent
    /\ clock = 1
    /\ cache = Undefined
    /\ result = NoResult
    /\ config \in [similarityThreshold : {DefaultThreshold},
                   barrelFilePatterns : PatternSets]
    /\ prev = NoPrev
    /\ run = NoRun
    /\ project \in Projects
    /\ index = NoIndex
    /\ usages = NoUsages
    /\ declaration = NoDeclaration

\* batchTrackUsages builds the index once
BuildImportIndex ==
    /\ ~index.built
    /\ index' = [built |-> TRUE,
                 map |-> buildImportIndex(project.files, config.barrelFilePatterns)]
    /\ UNCHANGED <<file, clock, cache, result, config, prev, run, project, usages, declaration>>

\* and then looks up each symbol
TrackUsagesFromIndex ==
    /\ index.built
    /\ \E symbolName \in SymbolNames, f \in DOMAIN project.files :
          usages' = [op |-> "trackUsagesFromIndex",
                     symbolName |-> symbolName,
                     exportFilePath |-> project.files[f].filePath,
                     returned |-> trackUsagesFromIndex(symbolName,
                                                       project.files[f].filePath,
                                                       index.map)]
    /\ UNCHANGED <<file, clock, cache, result, config, prev, run, project, index, declaration>>

NextUsage == BuildImportIndex \/ TrackUsagesFromIndex

SpecUsage == InitUsage /\ [][NextUsage]_vars

\* The same two steps for the projects whose definition file imports
\* nothing, listed from src/index.ts back to src/Button.tsx.
OrderProjects ==
    { [files |-> Reverse(<<SourceFile(ButtonPath, <<>>, <<Occurrence("Button", 3)>>),
                           a, HomeFile, IndexFile>>)] : a \in AppFiles }

InitOrder ==
    /\ file = Absent
    /\ clock = 1
    /\ cache = Undefined
    /\ result = NoResult
    /\ config \in [similarityThreshold : {DefaultThreshold},
                   barrelFilePatterns : PatternSets]
    /\ prev = NoPrev
    /\ run = NoRun
    /\ project \in OrderProjects
    /\ index = NoIndex
    /\ usages = NoUsages
    /\ declaration = NoDeclaration

SpecOrder == InitOrder /\ [][NextUsage]_vars

\* source files without imports at the paths of a set
RECURSIVE SetToFiles(_)
SetToFiles(paths) ==
    IF paths = {} THEN <<>>
    ELSE LET p == CHOOSE q \in paths : TRUE
         IN  <<SourceFile(p, <<>>, <<>>)>> \o SetToFiles(paths \ {p})

-----------------------------------------------------------------------------
(* The import resolver called on its own: a project whose file set is any  *)
(* set of the paths a specifier of the model can name, and one call of     *)
(* resolveImportPath from src/App.tsx.                                     *)

\* /p/src/Button, /p/src/Button.ts, /p/src/Button.tsx, /p/src/Button.tsx.ts,
\* /p/src/Button/index.ts, /p/src/Button/index.tsx, /p/src/index.ts
ResolverPaths ==
    { Cwd \o <<Name("src"), Name("Button")>>,
      Cwd \o <<Name("src"), FileName("Button", ".ts")>>,
      ButtonPath,
      WithSuffix(ButtonPath, ".ts"),
      Cwd \o <<Name("src"), Name("Button"), FileName("index", ".ts")>>,
      Cwd \o <<Name("src"), Name("Button"), FileName("index", ".tsx")>>,
      IndexPath }

\* "./Button", "./Button.tsx", "../src/Button", ".", "Button", "react"
ResolverSpecifiers ==
    { SpecifierButton,
      <<Dot, FileName("Button", ".tsx")>>,
      <<DotDot, Name("src"), Name("Button")>>,
      SpecifierDir,
      <<Name("Button")>>,
      SpecifierReact }

\* a path is a file or a directory, not both
ResolverProjects ==
    { [files |-> <<SourceFile(AppPath, <<>>, <<>>)>> \o fs] :
        fs \in { SetToFiles(ps) : ps \in
                   { qs \in SUBSET ResolverPaths :
                       ~ /\ Cwd \o <<Name("src"), Name("Button")>> \in qs
                         /\ \E q \in qs : Len(q) = 4 } } }

InitResolve ==
    /\ file = Absent
    /\ clock = 1
    /\ cache = Undefined
    /\ result = NoResult
    /\ config = [similarityThreshold |-> DefaultThreshold]
    /\ prev = NoPrev
    /\ run = NoRun
    /\ project \in ResolverProjects
    /\ index = NoIndex
    /\ usages = NoUsages
    /\ declaration = NoDeclaration

\* resolveImportPath(currentFilePath, moduleSpecifier, project)
ResolveImport ==
    /\ \E moduleSpecifier \in ResolverSpecifiers :
          result' = [op |-> "resolveImportPath",
                     currentFilePath |-> AppPath,
                     moduleSpecifier |-> moduleSpecifier,
                     returned |-> resolveImportPath(AppPath, moduleSpecifier,
                                                    SourceFilePaths(project.files))]
    /\ UNCHANGED <<file, clock, cache, config, prev, run, project, index, usages, declaration>>

NextResolve == ResolveImport

SpecResolve == InitResolve /\ [][NextResolve]_vars

-----------------------------------------------------------------------------
(* Hashing of a declaration node: normalizeASTForHashing,                  *)
(* hashComponentImplementation, hashComponentInterface, and the metadata   *)
(* extraction of the generator that calls them.                            *)
(*                                                                         *)
(* The source text of a declaration is its tokens; trivia[i] is the white  *)
(* space and the comments standing before token i.  A node covers the      *)
(* tokens from..to, and getText() of a node is the source text between     *)
(* the start of its first token and the end of its last one: the trivia    *)
(* between them is part of it.  A text is a sequence of pieces.            *)

WhiteSpace == {" ", "\n  "}
Comments == {"/* c */", "// c"}
Words == {"function", "return", "f", "Button", "a", "b", "props", "label",
          "T", "U", "string", "number"}
JsxElements == {"<b/>", "<i/>"}

Trivia == {<<>>, <<" ">>, <<"\n  ">>, <<" ", "/* c */", " ">>,
           <<"\n  ", "// c", "\n  ">>}

Node(kind, from, to) == [kind |-> kind, from |-> from, to |-> to]
CommentNode(kind, text) == [kind |-> kind, text |-> text]

\* function f(a: T) { return a; }
UtilityDeclaration ==
    [tokens |-> <<"function", "f", "(", "a", ":", "T", ")",
                  "{", "return", "a", ";", "}">>,
     trivia |-> <<<<>>, <<" ">>, <<>>, <<>>, <<>>, <<" ">>, <<>>,
                  <<" ">>, <<" ">>, <<" ">>, <<>>, <<" ">>>>,
     nodes  |-> <<Node("Identifier", 2, 2),
                  Node("Parameter", 4, 6),
                  Node("Identifier", 4, 4),
                  Node("TypeReference", 6, 6),
                  Node("Identifier", 6, 6),
                  Node("Block", 8, 12),
                  Node("ReturnStatement", 9, 11),
                  Node("Identifier", 10, 10)>>]

\* function Button(props: { label: string }) { return <b/>; }
ComponentDeclaration ==
    [tokens |-> <<"function", "Button", "(", "props", ":",
                  "{", "label", ":", "string", "}", ")",
                  "{", "return", "<b/>", ";", "}">>,
     trivia |-> <<<<>>, <<" ">>, <<>>, <<>>, <<>>,
                  <<" ">>, <<" ">>, <<>>, <<" ">>, <<" ">>, <<>>,
                  <<" ">>, <<" ">>, <<" ">>, <<>>, <<" ">>>>,
     nodes  |-> <<Node("Identifier", 2, 2),
                  Node("Parameter", 4, 10),
                  Node("Identifier", 4, 4),
                  Node("TypeLiteral", 6, 10),
                  Node("PropertySignature", 7, 9),
                  Node("Identifier", 7, 7),
                  Node("StringKeyword", 9, 9),
                  Node("Block", 12, 16),
                  Node("ReturnStatement", 13, 15),
                  Node("JsxSelfClosingElement", 14, 14)>>]

NodesOfKind(d, kind) == SelectSeq(d.nodes, LAMBDA n : n.kind = kind)

\* substring(node.getStart(), node.getEnd()) of the source text
RECURSIVE TextBetween(_, _, _)
TextBetween(d, from, to) ==
    IF from > to THEN <<>>
    ELSE IF from = to THEN <<d.tokens[from]>>
    ELSE <<d.tokens[from]>> \o d.trivia[from + 1] \o TextBetween(d, from + 1, to)

getText(d, node) ==
    IF "text" \in DOMAIN node THEN node.text
    ELSE TextBetween(d, node.from, node.to)

\* String.prototype.trim()
RECURSIVE trim(_)
trim(text) ==
    IF text = <<>> THEN <<>>
    ELSE IF Head(text) \in WhiteSpace THEN trim(Tail(text))
    ELSE IF text[Len(text)] \in WhiteSpace THEN trim(SubSeq(text, 1, Len(text) - 1))
    ELSE text

\* a comment on a line of its own in a statement list is a node of its own
OwnLineComments(d, i) ==
    LET own == SelectSeq(d.trivia[i], LAMBDA piece : piece = "// c")
    IN  [k \in 1..Len(own) |-> CommentNode("SingleLineCommentTrivia", <<own[k]>>)]

RECURSIVE WithComments(_, _, _)
WithComments(d, nodes, i) ==
    IF i > Len(nodes) THEN <<>>
    ELSE (IF nodes[i].kind = "ReturnStatement"
               THEN OwnLineComments(d, nodes[i].from) ELSE <<>>)
         \o <<nodes[i]>> \o WithComments(d, nodes, i + 1)

\* node.forEachDescendant: the nodes below the declaration, in document order
Descendants(d) ==
    LET block == NodesOfKind(d, "Block")[1]
    IN  WithComments(d, d.nodes, 1) \o OwnLineComments(d, block.to)

SkippedKinds == {"SingleLineCommentTrivia", "MultiLineCommentTrivia", "JSDocComment"}

\* Array.prototype.join
RECURSIVE join(_, _)
join(texts, separator) ==
    IF texts = <<>> THEN <<>>
    ELSE IF Len(texts) = 1 THEN texts[1]
    ELSE texts[1] \o <<separator>> \o join(Tail(texts), separator)

RECURSIVE NormalizedTexts(_, _, _)
NormalizedTexts(d, descendants, i) ==
    IF i > Len(descendants) THEN <<>>
    ELSE LET text == trim(getText(d, descendants[i]))
         IN  (IF descendants[i].kind \in SkippedKinds \/ text = <<>>
                   THEN <<>> ELSE <<text>>)
             \o NormalizedTexts(d, descendants, i + 1)

normalizeASTForHashing(d) == join(NormalizedTexts(d, Descendants(d), 1), "|")

\* crypto.createHash("sha256").update(content).digest("hex"): two contents
\* have the same digest exactly when they are the same string
sha256(content) == [sha256 |-> content]

hashComponentImplementation(d) == sha256(normalizeASTForHashing(d))

hashComponentInterface(d, hasPropsNode, signatureText) ==
    sha256(signatureText \o (IF hasPropsNode THEN normalizeASTForHashing(d) ELSE <<>>))

\* extractSignature of a function declaration (the declarations here carry
\* no return type annotation, so returnType is "")
RECURSIVE ParameterTexts(_, _, _)
ParameterTexts(d, params, i) ==
    IF i > Len(params) THEN <<>>
    ELSE <<getText(d, params[i])>> \o ParameterTexts(d, params, i + 1)

extractSignature(d) ==
    LET params == join(ParameterTexts(d, NodesOfKind(d, "Parameter"), 1), ", ")
        funcName == getText(d, NodesOfKind(d, "Identifier")[1])
    IN  <<"function ">> \o funcName \o <<"(">> \o params \o <<")">>

\* isReactComponent: /return\s+<[a-z]+/ or /return\s*\(\s*<[a-z]+/ on getText()
OnlyWhiteSpace(text) == \A k \in 1..Len(text) : text[k] \in WhiteSpace

isReactComponent(d) ==
    \E i \in 1..(Len(d.tokens) - 1) :
        /\ d.tokens[i] = "return"
        /\ d.tokens[i + 1] \in JsxElements
        /\ d.trivia[i + 1] # <<>>
        /\ OnlyWhiteSpace(d.trivia[i + 1])

\* extractProps: the property signatures of the first parameter's type literal
extractProps(d) ==
    LET params == NodesOfKind(d, "Parameter")
    IN  IF params = <<>> THEN <<>>
        ELSE SelectSeq(d.nodes, LAMBDA n :
                 /\ n.kind = "PropertySignature"
                 /\ n.from >= params[1].from
                 /\ n.to <= params[1].to
                 /\ \E t \in 1..Len(d.nodes) :
                        /\ d.nodes[t].kind = "TypeLiteral"
                        /\ d.nodes[t].from < n.from
                        /\ n.to < d.nodes[t].to)

\* extractComponentMetadata for a function declaration
extractComponentMetadata(d) ==
    LET signature == extractSignature(d)
        props == IF isReactComponent(d) THEN extractProps(d) ELSE <<>>
        implHash == hashComponentImplementation(d)
        hasPropsNode == Len(props) > 0
        interfaceHash == hashComponentInterface(d, hasPropsNode, signature)
    IN  [signature |-> signature,
         props |-> Len(props),
         implementationHash |-> implHash,
         interfaceHash |-> interfaceHash]

(* The versions of a declaration that are hashed: a base declaration and   *)
(* an edit of it.  A reformatting replaces the trivia before a token and   *)
(* keeps the tokens apart that white space has to keep apart; the other    *)
(* edits replace one token of the body or of the parameter's type.         *)

KeepsTokens(d, i, t) ==
    (d.tokens[i - 1] \in Words /\ d.tokens[i] \in Words) => t # <<>>

ReformatOnce(d) ==
    {[d EXCEPT !.trivia[i] = t] :
        <<i, t>> \in {x \in (2..Len(d.tokens)) \X Trivia : KeepsTokens(d, x[1], x[2])}}

RECURSIVE Reformat(_, _)
Reformat(ds, k) ==
    IF k = 0 THEN ds
    ELSE Reformat(ds \cup UNION {ReformatOnce(d) : d \in ds}, k - 1)

OtherToken(token) ==
    CASE token = "a" -> "b"
      [] token = "<b/>" -> "<i/>"
      [] token = "T" -> "U"
      [] token = "string" -> "number"
      [] OTHER -> token

Body(d) == NodesOfKind(d, "Block")[1]
ParameterList(d) ==
    LET params == NodesOfKind(d, "Parameter")
    IN  Node("Parameters", params[1].from, params[Len(params)].to)

\* the expression returned by the body
EditBody(d) ==
    LET i == NodesOfKind(d, "ReturnStatement")[1].from + 1
    IN  [d EXCEPT !.tokens[i] = OtherToken(d.tokens[i])]

\* the type of the parameter (of its one property, for a type literal)
EditSignature(d) ==
    LET p == NodesOfKind(d, "Parameter")[1]
        i == IF d.tokens[p.to] = "}" THEN p.to - 1 ELSE p.to
    IN  [d EXCEPT !.tokens[i] = OtherToken(d.tokens[i])]

BaseDeclarations == {UtilityDeclaration, ComponentDeclaration}

Versions ==
    UNION {{<<d, e>> : e \in Reformat({d}, MaxReformats)
                             \cup {EditBody(d), EditSignature(d)}} :
           d \in BaseDeclarations}

NoMetadata == [props |-> -1]

InitHash ==
    /\ file = Absent
    /\ clock = 1
    /\ cache = Undefined
    /\ result = [op |-> "extractComponentMetadata",
                 metadata |-> <<NoMetadata, NoMetadata>>]
    /\ config = [similarityThreshold |-> DefaultThreshold]
    /\ prev = NoPrev
    /\ run = NoRun
    /\ project = NoProject
    /\ index = NoIndex
    /\ usages = NoUsages
    /\ declaration \in {[versions |-> v] : v \in Versions}

\* extractComponentMetadata(name, declaration, filePath) on one version
ExtractComponentMetadata ==
    /\ \E v \in 1..2 :
          /\ result.metadata[v] = NoMetadata
          /\ result' = [result EXCEPT
                 !.metadata[v] = extractComponentMetadata(declaration.versions[v])]
    /\ UNCHANGED <<file, clock, cache, config, prev, run, project, index, usages,
                   declaration>>

NextHash == ExtractComponentMetadata

SpecHash == InitHash /\ [][NextHash]_vars

-----------------------------------------------------------------------------
(* The catalog a run of generate writes: findSourceFiles, extractComponents *)
(* and the writer, over the files on disk.                                  *)

\* a pattern segment "*<exts>", as in "*.stories.tsx"
Star(exts) == [base |-> "*", exts |-> exts]

\* glob(pattern, {ignore, absolute: true, cwd}) for patterns relative to cwd,
\* in the order of the files on disk
Ignored(relativePath, ignore) ==
    \E i \in DOMAIN ignore : matchOne(relativePath, ignore[i], 1, 1)

glob(pattern, ignore, disk) ==
    SelectSeq(disk, LAMBDA f :
        LET relativePath == relative(Cwd, f.filePath)
        IN  matchOne(relativePath, pattern, 1, 1) /\ ~Ignored(relativePath, ignore))

\* [...new Set(files)]
RECURSIVE Unique(_)
Unique(files) ==
    IF files = <<>> THEN <<>>
    ELSE LET front == Unique(SubSeq(files, 1, Len(files) - 1))
             last == files[Len(files)]
         IN  IF \E i \in DOMAIN front : front[i] = last THEN front
             ELSE Append(front, last)

RECURSIVE GlobEach(_, _, _, _)
GlobEach(include, ignore, disk, i) ==
    IF i > Len(include) THEN <<>>
    ELSE glob(include[i], ignore, disk) \o GlobEach(include, ignore, disk, i + 1)

findSourceFiles(cfg, disk) == Unique(GlobEach(cfg.include, cfg.exclude, disk, 1))

\* An exported declaration: the name it is exported under and the kind of
\* the declaration node getExportedDeclarations answers.
Exported(name, kind) == [name |-> name, kind |-> kind]

\* extractComponentMetadata returns null for the kinds it does not support
SupportedKinds == {"FunctionDeclaration", "ArrowFunction", "VariableDeclaration",
                   "ClassDeclaration", "InterfaceDeclaration", "TypeAliasDeclaration"}

CatalogEntry(name, filePath) == [name |-> name, filePath |-> filePath]

RECURSIVE FileComponents(_, _, _)
FileComponents(filePath, exports, i) ==
    IF i > Len(exports) THEN <<>>
    ELSE (IF exports[i].kind \in SupportedKinds
               THEN <<CatalogEntry(exports[i].name, filePath)>> ELSE <<>>)
         \o FileComponents(filePath, exports, i + 1)

\* extractComponents: every exported declaration of every source file of
\* the project, under the file's path relative to cwd
RECURSIVE extractComponents(_, _)
extractComponents(sourceFiles, i) ==
    IF i > Len(sourceFiles) THEN <<>>
    ELSE FileComponents(relative(Cwd, sourceFiles[i].filePath),
                        sourceFiles[i].exports, 1)
         \o extractComponents(sourceFiles, i + 1)

ExportingFile(filePath, exports) == [filePath |-> filePath, exports |-> exports]

\* The files a source tree can hold
DiskFiles ==
    << ExportingFile(ButtonPath, <<Exported("Button", "VariableDeclaration")>>),
       ExportingFile(Cwd \o <<Name("src"),
                              [base |-> "Button", exts |-> <<".stories", ".tsx">>]>>,
                     <<Exported("default", "ObjectLiteralExpression"),
                       Exported("Primary", "VariableDeclaration")>>),
       ExportingFile(IndexPath,
                     <<Exported("Button", "VariableDeclaration"),
                       Exported("barrelUtility", "VariableDeclaration")>>),
       ExportingFile(Cwd \o <<Name("src"),
                              [base |-> "theme", exts |-> <<".constants", ".ts">>]>>,
                     <<Exported("COLORS", "VariableDeclaration")>>),
       ExportingFile(Cwd \o <<Name("src"), Name("node_modules"), Name("lib"),
                              FileName("index", ".ts")>>,
                     <<Exported("lib", "FunctionDeclaration")>>),
       ExportingFile(Cwd \o <<Name("docs"), FileName("Note", ".ts")>>,
                     <<Exported("Note", "InterfaceDeclaration")>>) >>

RECURSIVE Pick(_, _, _)
Pick(files, chosen, i) ==
    IF i > Len(files) THEN <<>>
    ELSE (IF i \in chosen THEN <<files[i]>> ELSE <<>>) \o Pick(files, chosen, i + 1)

Disks == {Pick(DiskFiles, chosen, 1) : chosen \in SUBSET DOMAIN DiskFiles}

\* include "src/**/*.{ts,tsx}" and exclude "**/node_modules/**", with the
\* three pattern lists empty or as the example configuration has them
CatalogConfigs ==
    [similarityThreshold : {DefaultThreshold},
     include : {<< <<Name("src"), Globstar, Star(<<".ts">>)>>,
                   <<Name("src"), Globstar, Star(<<".tsx">>)>> >>},
     exclude : {<< <<Globstar, Name("node_modules"), Globstar>> >>},
     barrelFilePatterns : {<<>>, << <<Globstar, FileName("index", ".ts")>> >>},
     storyFilePatterns : {<<>>, << <<Globstar, Star(<<".stories", ".tsx">>)>> >>},
     constantsFilePatterns : {<<>>, << <<Globstar, Star(<<".constants", ".ts">>)>> >>}]

InitCatalog ==
    /\ file = Absent
    /\ clock = 1
    /\ cache = Undefined
    /\ result = NoResult
    /\ config \in CatalogConfigs
    /\ prev = NoPrev
    /\ run = NoRun
    /\ project \in {[files |-> <<>>, disk |-> disk] : disk \in Disks}
    /\ index = NoIndex
    /\ usages = NoUsages
    /\ declaration = NoDeclaration

\* const files = await this.findSourceFiles();
\* this.project.addSourceFilesAtPaths(files)
CatalogFindSourceFiles ==
    /\ run.pc = "idle"
    /\ project' = [project EXCEPT !.files = findSourceFiles(config, project.disk)]
    /\ run' = [pc |-> "found"]
    /\ UNCHANGED <<file, clock, cache, result, config, prev, index, usages,
                   declaration>>

\* const components = await this.extractComponents()
CatalogExtractComponents ==
    /\ run.pc = "found"
    /\ run' = [pc |-> "extracted", components |-> extractComponents(project.files, 1)]
    /\ UNCHANGED <<file, clock, cache, result, config, prev, project, index, usages,
                   declaration>>

\* this.writer.addComponent(component) for every component, then
\* this.writer.finalize(): catalog.json holds them all
CatalogWrite ==
    /\ run.pc = "extracted"
    /\ result' = [op |-> "generate", components |-> run.components]
    /\ run' = [pc |-> "done"]
    /\ UNCHANGED <<file, clock, cache, config, prev, project, index, usages,
                   declaration>>

NextCatalog == CatalogFindSourceFiles \/ CatalogExtractComponents \/ CatalogWrite

SpecCatalog == InitCatalog /\ [][NextCatalog]_vars

-----------------------------------------------------------------------------
(* A run of generate(true) in which the processing of one file can raise:  *)
(* project.failure names the file and the step in which ts-morph throws    *)
(* on it ("extract": inside the callback of extractComponents; "scan":     *)
(* inside the loop of buildImportIndex).  generate, extractComponents and  *)
(* buildImportIndex hold no try/catch.                                     *)

NoFailure == [step |-> "none"]
Failures(disk) ==
    {NoFailure} \cup
    {[step |-> step, filePath |-> disk[i].filePath] :
        step \in {"extract", "scan"}, i \in DOMAIN disk}

Throws(step, sourceFile) ==
    project.failure.step = step /\ project.failure.filePath = sourceFile.filePath

\* every entity is hashed; the hash pair is the same for all of them here
RECURSIVE WithHashes(_, _)
WithHashes(entries, i) ==
    IF i > Len(entries) THEN <<>>
    ELSE <<Component(entries[i].filePath, entries[i].name, <<Str("h1"), Str("h2")>>)>>
         \o WithHashes(entries, i + 1)

InitFailure ==
    /\ file = Absent
    /\ clock = 1
    /\ cache = Undefined
    /\ result = NoResult
    /\ config \in CatalogConfigs
    /\ prev = NoPrev
    /\ run = NoRun
    /\ project \in {[files |-> <<>>, disk |-> disk, failure |-> failure] :
                       disk \in Disks \ {<<>>}, failure \in Failures(DiskFiles)}
    /\ index = NoIndex
    /\ usages = NoUsages
    /\ declaration = NoDeclaration

\* const components = await this.extractComponents(): Promise.all rejects
\* when the callback of one source file threw, and the await rethrows
FailureExtractComponents ==
    /\ run.pc = "found"
    /\ IF \E i \in DOMAIN project.files : Throws("extract", project.files[i])
       THEN run' = [pc |-> "failed", at |-> "extractComponents"]
       ELSE run' = [pc |-> "extracted",
                    components |-> WithHashes(extractComponents(project.files, 1), 1)]
    /\ UNCHANGED <<file, clock, cache, result, config, prev, project, index, usages,
                   declaration>>

\* const cache = loadCache(...); every component is selected (force)
FailureLoadCache ==
    /\ run.pc = "extracted"
    /\ cache' = loadCache(file, clock)
    /\ clock' = IF loadCacheStartsFresh(file) THEN clock + 1 ELSE clock
    /\ run' = [run EXCEPT !.pc = "loaded"]
    /\ UNCHANGED <<file, result, config, prev, project, index, usages, declaration>>

\* const usageMap = await this.trackUsages(components): the loop of
\* buildImportIndex over the source files that are not barrel files
FailureTrackUsages ==
    /\ run.pc = "loaded"
    /\ IF \E i \in DOMAIN project.files :
             /\ ~isBarrelFile(project.files[i].filePath, config.barrelFilePatterns)
             /\ Throws("scan", project.files[i])
       THEN run' = [pc |-> "failed", at |-> "buildImportIndex"]
       ELSE run' = [run EXCEPT !.pc = "tracked"]
    /\ UNCHANGED <<file, clock, cache, result, config, prev, project, index, usages,
                   declaration>>

\* the writer takes every component, the cache is updated for each one and
\* saved
FailureWriteAndSave ==
    /\ run.pc = "tracked"
    /\ LET keysToUpdate == KeysToUpdate(run.components, TRUE, <<>>)
           updated == UpdateLoop(cache, run.components, keysToUpdate, 1, clock)
       IN  /\ cache' = saveCacheStamp(updated, clock)
           /\ file' = saveCacheFile(updated, file, clock, "written")
    /\ result' = [op |-> "generate", components |-> run.components]
    /\ run' = [run EXCEPT !.pc = "done"]
    /\ clock' = clock + 1
    /\ UNCHANGED <<config, prev, project, index, usages, declaration>>

NextFailure ==
    \/ CatalogFindSourceFiles
    \/ FailureExtractComponents
    \/ FailureLoadCache
    \/ FailureTrackUsages
    \/ FailureWriteAndSave

SpecFailure == InitFailure /\ [][NextFailure]_vars

-----------------------------------------------------------------------------
(* config.ts: loadConfig.  project.configFile is the module found at        *)
(* catalog.config.mts (Absent: no such file); its default export is an      *)
(* object literal, modelled by the function from its own property names to  *)
(* their values.  The patterns written with braces stand expanded over .ts  *)
(* and .tsx.                                                                *)

NodeModulesPattern == <<Globstar, Name("node_modules"), Globstar>>
TestPattern == <<Globstar, Star(<<".test", ".ts">>)>>

DEFAULT_CONFIG ==
    [include |-> << <<Name("src"), Globstar, Star(<<".ts">>)>>,
                    <<Name("src"), Globstar, Star(<<".tsx">>)>> >>,
     exclude |-> << NodeModulesPattern,
                    <<Globstar, Name("dist"), Globstar>>,
                    <<Globstar, Name("build"), Globstar>>,
                    TestPattern,
                    <<Globstar, Star(<<".test", ".tsx">>)>>,
                    <<Globstar, Star(<<".spec", ".ts">>)>>,
                    <<Globstar, Star(<<".spec", ".tsx">>)>> >>,
     barrelFilePatterns |-> << <<Globstar, FileName("index", ".ts")>>,
                               <<Globstar, FileName("index", ".tsx")>> >>,
     storyFilePatterns |-> << <<Globstar, Star(<<".stories", ".ts">>)>>,
                              <<Globstar, Star(<<".stories", ".tsx">>)>> >>,
     constantsFilePatterns |-> << <<Globstar, Star(<<".constants", ".ts">>)>>,
                                  <<Globstar, Star(<<".constants", ".tsx">>)>> >>,
     similarityThreshold |-> DefaultThreshold,
     outputPath |-> Cwd]

\* CATALOG_CONFIG_SCHEMA.safeParse(userConfig).success: include is required
\* and has at least one pattern, the other fields are optional, and the
\* threshold lies between 0 and 1
SchemaAccepts(userConfig) ==
    /\ "include" \in DOMAIN userConfig
    /\ Len(userConfig.include) >= 1
    /\ "similarityThreshold" \in DOMAIN userConfig =>
          /\ userConfig.similarityThreshold >= 0
          /\ userConfig.similarityThreshold <= 100

\* { ...a, ...b }: the own properties of a, then those of b over them
Spread(a, b) ==
    [k \in DOMAIN a \cup DOMAIN b |-> IF k \in DOMAIN b THEN b[k] ELSE a[k]]

\* the value loadConfig returns or the error it throws
loadConfig(configFile) ==
    IF configFile.kind = "absent"
    THEN [threw |-> FALSE, value |-> Spread(DEFAULT_CONFIG, <<>>)]
    ELSE IF ~SchemaAccepts(configFile.doc)
    THEN [threw |-> TRUE]
    ELSE [threw |-> FALSE, value |-> Spread(DEFAULT_CONFIG, configFile.doc)]

NoProperty == [k \in {} |-> <<>>]
Optional(key, values) == {NoProperty} \cup {key :> v : v \in values}

UserConfigs ==
    {i @@ e @@ b @@ t :
        i \in Optional("include", {<<>>, << <<Name("src"), Globstar, Star(<<".ts">>)>> >>}),
        e \in Optional("exclude", {<<>>, <<TestPattern>>, <<NodeModulesPattern>>}),
        b \in Optional("barrelFilePatterns", {<<>>}),
        t \in Optional("similarityThreshold", {0, 100, 150})}

InitConfig ==
    /\ file = Absent
    /\ clock = 1
    /\ cache = Undefined
    /\ result = NoResult
    /\ config = Undefined
    /\ prev = NoPrev
    /\ run = NoRun
    /\ project \in {[files |-> <<>>, configFile |-> f] :
                       f \in {Absent} \cup {Text(u) : u \in UserConfigs}}
    /\ index = NoIndex
    /\ usages = NoUsages
    /\ declaration = NoDeclaration

\* const config = await loadConfig();
LoadConfig ==
    /\ result = NoResult
    /\ LET r == loadConfig(project.configFile)
       IN  /\ config' = IF r.threw THEN config ELSE r.value
           /\ result' = [op |-> "loadConfig", threw |-> r.threw]
    /\ UNCHANGED <<file, clock, cache, prev, run, project, index, usages,
                   declaration>>

NextConfig == LoadConfig

SpecConfig == InitConfig /\ [][NextConfig]_vars

-----------------------------------------------------------------------------
(* Properties of the change-detection cache *)

HasRecords(c) == Get(c, "components").t = "obj"
RecordKeys(c) == DOMAIN Get(c, "components").f
RecordProps == {"implementationHash", "interfaceHash", "lastEnhanced", "description"}
New == [threw |-> FALSE, value |-> TRUE]
Unchanged == [threw |-> FALSE, value |-> FALSE]

\* similarity(a, b) = 1 if a = b else 0, in hundredths
Similarity(a, b) == IF a = b THEN 100 ELSE 0

StoredHashDiffers(c, key, pair) ==
    \/ Get(Cached(c, key), "implementationHash") # pair[1]
    \/ Get(Cached(c, key), "interfaceHash") # pair[2]

\* C16: for every threshold t with 0 < t <= 1, needsRegeneration is true
\* exactly when the key has no record or one of the two stored hashes
\* differs from the new one (for a cache with a records map).
C16_PositiveThresholdIsAnyChange ==
    (/\ result.op = "needsRegeneration"
     /\ HasRecords(cache)
     /\ 0 < result.threshold
     /\ result.threshold <= 100) =>
        /\ ~result.returned.threw
        /\ result.returned.value =
              ( \/ result.key \notin RecordKeys(cache)
                \/ StoredHashDiffers(cache, result.key, result.pair) )

\* A call at threshold 1.0 for a recorded key whose stored interface hash
\* equals the new one and whose implementation hash does not: true.
C16_Witness ==
    /\ result.op = "needsRegeneration"
    /\ HasRecords(cache)
    /\ result.key \in RecordKeys(cache)
    /\ result.threshold = 100
    /\ Get(Cached(cache, result.key), "interfaceHash") = result.pair[2]
    /\ Get(Cached(cache, result.key), "implementationHash") # result.pair[1]
    /\ result.returned.value

\* C17: for every threshold below 1.0 (0 included) a change of the
\* implementation or of the interface hash of a cached entity makes
\* needsRegeneration true, and a call that returns true returns true at
\* every lower threshold.
C17_ChangeRegeneratesBelowOne ==
    (result.op = "needsRegeneration" /\ HasRecords(cache)) =>
        /\ (/\ result.threshold < 100
            /\ result.key \in RecordKeys(cache)
            /\ StoredHashDiffers(cache, result.key, result.pair)) =>
               (~result.returned.threw /\ result.returned.value)
        /\ result.returned.value =>
               \A lower \in {t \in Thresholds : t < result.threshold} :
                   needsRegeneration(result.key, result.pair[1], result.pair[2],
                                     cache, lower).value

\* C22: updateCache leaves the record of the key holding exactly the given
\* hash pair, sets lastEnhanced if and only if a description is supplied, and
\* leaves the records of all other keys, the version and lastGenerated as
\* they were.
C22_UpdateCacheFrame ==
    [][ (result'.op = "updateCache" /\ ~result'.threw /\ cache' # cache) =>
           LET record == Cached(cache', result'.key) IN
           /\ Get(record, "implementationHash") = result'.pair[1]
           /\ Get(record, "interfaceHash") = result'.pair[2]
           /\ (Get(record, "lastEnhanced") # Undefined) = (result'.description # Undefined)
           /\ RecordKeys(cache') = RecordKeys(cache) \cup {result'.key}
           /\ \A other \in RecordKeys(cache) \ {result'.key} :
                  Cached(cache', other) = Cached(cache, other)
           /\ Get(cache', "version") = Get(cache, "version")
           /\ Get(cache', "lastGenerated") = Get(cache, "lastGenerated")
      ]_vars

\* A record stored with a description, and stamped, next to the record of
\* another key.
C22_Witness ==
    /\ result.op = "updateCache"
    /\ ~result.threw
    /\ result.description # Undefined
    /\ RecordKeys(cache) = ComponentKeys
    /\ Get(Cached(cache, result.key), "lastEnhanced") # Undefined
    /\ Get(Cached(cache, result.key), "implementationHash") = result.pair[1]

\* C29: updateCache without a description on a key whose record holds a
\* description and its timestamp replaces the whole record: afterwards it
\* holds the new hash pair and neither description nor timestamp.
C29_UpdateDropsDescription ==
    (/\ result.op = "updateCache"
     /\ ~result.threw
     /\ result.description = Undefined
     /\ Get(result.replaced, "description") # Undefined) =>
        LET record == Cached(cache, result.key) IN
        /\ Get(record, "implementationHash") = result.pair[1]
        /\ Get(record, "interfaceHash") = result.pair[2]
        /\ Get(record, "description") = Undefined
        /\ Get(record, "lastEnhanced") = Undefined

\* A described and stamped record was replaced by a call that changed its
\* implementation hash and gave no description.
C29_Witness ==
    /\ result.op = "updateCache"
    /\ ~result.threw
    /\ result.description = Undefined
    /\ Get(result.replaced, "description") # Undefined
    /\ Get(result.replaced, "lastEnhanced") # Undefined
    /\ Get(result.replaced, "implementationHash") # result.pair[1]
    /\ Get(Cached(cache, result.key), "description") = Undefined

\* C2: on an empty cache needsRegeneration is true for any key and hash
\* pair; after updateCache, saveCache and loadCache from the same location
\* every property of every stored record reads as it did in memory, and at
\* threshold 0.85 needsRegeneration on the reloaded cache is false for a
\* stored key with its stored hash pair and true with another
\* implementation hash.
C2_SaveLoadRoundTrip ==
    [][ /\ (result'.op = "needsRegeneration" /\ HasRecords(cache) /\ RecordKeys(cache) = {})
            => result'.returned = New
        /\ (/\ result.op = "saveCache" /\ result.outcome = "written"
            /\ result'.op = "loadCache" /\ HasRecords(cache))
            => /\ HasRecords(cache')
               /\ RecordKeys(cache') = RecordKeys(cache)
               /\ \A key \in RecordKeys(cache) :
                    /\ \A p \in RecordProps :
                          Get(Cached(cache', key), p) = Get(Cached(cache, key), p)
                    /\ needsRegeneration(key,
                          Get(Cached(cache, key), "implementationHash"),
                          Get(Cached(cache, key), "interfaceHash"),
                          cache', DefaultThreshold) = Unchanged
                    /\ \A h \in ImplHashes \ {Get(Cached(cache, key), "implementationHash")} :
                          needsRegeneration(key, h,
                             Get(Cached(cache, key), "interfaceHash"),
                             cache', DefaultThreshold) = New
      ]_vars

\* A cache reloaded from a file that a saveCache of this behaviour wrote after
\* a first load that started empty, holding the record updateCache stored.
C2_Witness ==
    /\ result.op = "loadCache"
    /\ result.from.kind = "text"
    /\ Get(result.from.doc, "lastGenerated") = Date(2)
    /\ HasRecords(cache)
    /\ RecordKeys(cache) = {<<"src/Button.tsx", "Button">>}
    /\ Get(Cached(cache, <<"src/Button.tsx", "Button">>), "implementationHash") = Str("h1")

\* C4: loadCache returns an empty cache of the current version when the
\* file is missing and when the file's version is not the current one, and
\* on that cache every key and hash pair needs regeneration at every
\* threshold.
C4_MissingOrOtherVersionStartsEmpty ==
    (/\ result.op = "loadCache"
     /\ \/ result.from = Absent
        \/ /\ result.from.kind = "text"
           /\ result.from.doc.t = "obj"
           /\ Get(result.from.doc, "version") # CACHE_VERSION)
    => /\ Get(cache, "version") = CACHE_VERSION
       /\ Get(cache, "components") = Obj(EmptyProps)
       /\ \A key \in ComponentKeys, pair \in HashPairs, threshold \in Thresholds :
             needsRegeneration(key, pair[1], pair[2], cache, threshold) = New

\* A load of a file of another version that holds records.
C4_Witness ==
    /\ result.op = "loadCache"
    /\ result.from.kind = "text"
    /\ result.from.doc.t = "obj"
    /\ Get(result.from.doc, "version") = OtherVersion
    /\ RecordKeys(result.from.doc) # {}
    /\ Get(cache, "components") = Obj(EmptyProps)

\* C5: whatever the cache file holds (unreadable, not parseable, or of the
\* current version without a well-formed records map), loading it resets the
\* cache to empty and needsRegeneration on the loaded cache never raises
\* and treats every entity as new.
C5_AnyFileLoadsAndNeverRaises ==
    /\ (/\ result.op = "loadCache"
        /\ \/ result.from.kind = "unreadable"
           \/ /\ result.from.kind = "text"
              /\ \/ result.from.doc = Invalid
                 \/ result.from.doc.t # "obj"
                 \/ Get(result.from.doc, "components").t # "obj")
       => /\ Get(cache, "components") = Obj(EmptyProps)
          /\ \A key \in ComponentKeys, pair \in HashPairs, threshold \in Thresholds :
                needsRegeneration(key, pair[1], pair[2], cache, threshold) = New
    /\ result.op = "needsRegeneration" => ~result.returned.threw

-----------------------------------------------------------------------------
(* Properties of a run of generate *)

\* C3: in a run that follows a run whose cache was saved, with the same
\* threshold and cache location, every component whose declaration (key and
\* hash pair) was also in the previous run gets needsRegeneration = false.
C3_UnchangedNotRegenerated ==
    (run.pc \in {"selected", "updated", "done"} /\ ~run.force /\ prev.saved) =>
        \A i \in DOMAIN run.components :
            run.components[i] \in prev.declarations => ~run.decisions[i]

C19_OnlyFinalSaveWrites ==
    [][ /\ file' # file => (run.pc = "updated" /\ run'.pc = "done")
        /\ run'.pc = "failed" => file' = file
      ]_vars

\* A run stopped after it had updated records in its cache object that the
\* file does not hold.
C19_Witness ==
    /\ run.pc = "failed"
    /\ "stoppedAt" \in DOMAIN run
    /\ run.stoppedAt = "updated"
    /\ HasRecords(cache)
    /\ RecordKeys(cache) # {}
    /\ file.kind = "text" => Get(file.doc, "components") # Get(cache, "components")

ComponentKeysOf(components) == {ComponentKey(components[i]) : i \in DOMAIN components}
TouchedKeys(before, after) ==
    {k \in (IF HasRecords(after) THEN RecordKeys(after) ELSE {}) :
        ~HasRecords(before) \/ k \notin RecordKeys(before)
        \/ Cached(after, k) # Cached(before, k)}

\* C23: in a run the cache is loaded once, before any decision; every
\* decision is taken against the cache as loaded, before any update; the
\* updates touch only keys of selected entities of the run; and saveCache is
\* called once, after the updates, also when no record changed.
C23_LoadDecideUpdateSaveOnce ==
    [][ /\ cache' # cache =>
              \/ run.pc \in {"idle", "done", "failed"} /\ cache' = Undefined
              \/ run.pc = "extracted" /\ cache' = loadCache(file, clock)
              \/ run.pc = "selected" /\ run'.pc = "updated"
              \/ run.pc = "updated" /\ run'.pc = "done"
                    /\ Get(cache', "components") = Get(cache, "components")
        /\ (run.pc = "loaded" /\ run'.pc = "selected") =>
              /\ cache' = cache
              /\ ~run.force =>
                    \A i \in DOMAIN run.components :
                        run'.decisions[i] =
                            ( \/ ComponentKey(run.components[i]) \notin RecordKeys(cache)
                              \/ StoredHashDiffers(cache, ComponentKey(run.components[i]),
                                    <<run.components[i].implementationHash,
                                      run.components[i].interfaceHash>>) )
                            \/ config.similarityThreshold = 0
        /\ (run.pc = "selected" /\ run'.pc = "updated") =>
              TouchedKeys(cache, cache') \subseteq
                  run.keysToUpdate \cap ComponentKeysOf(run.components)
        /\ file' # file => (run.pc = "updated" /\ run'.pc = "done")
        /\ (run.pc = "updated" /\ run' # run) =>
              (run'.pc = "done" /\ run'.saveOutcome \in SaveOutcomes)
      ]_vars

\* A run that selected nothing and still wrote the cache file, stamped with
\* the time of its save.
C23_Witness ==
    /\ run.pc = "done"
    /\ run.components # <<>>
    /\ run.keysToUpdate = {}
    /\ run.saveOutcome = "written"
    /\ file.kind = "text"
    /\ Get(file.doc, "lastGenerated") = Date(clock - 1)

PersistedPair(key) ==
    <<Get(Cached(file.doc, key), "implementationHash"),
      Get(Cached(file.doc, key), "interfaceHash")>>
CurrentPair(component) == <<component.implementationHash, component.interfaceHash>>

\* C24: generate(true) selects every extracted entity whatever the cache
\* holds, and after the run, its cache written, the persisted record of
\* every entity key equals that entity's current hash pair.
C24_ForceSelectsAndRecordsAll ==
    (run.pc \in {"selected", "updated", "done"} /\ run.force) =>
        /\ run.keysToUpdate = ComponentKeysOf(run.components)
        /\ (run.pc = "done" /\ run.saveOutcome = "written") =>
              \A i \in DOMAIN run.components :
                  /\ file.kind = "text"
                  /\ PersistedPair(ComponentKey(run.components[i])) =
                        CurrentPair(run.components[i])

DistinctKeys(components) ==
    \A i, j \in DOMAIN components :
        ComponentKey(components[i]) = ComponentKey(components[j]) => i = j

\* the records of a cache file that loadCache takes as it is
LoadedRecords(f) ==
    IF f.kind = "text" /\ f.doc # Invalid /\ f.doc # JNull
       /\ Get(f.doc, "version") = CACHE_VERSION /\ HasRecords(f.doc)
    THEN Get(f.doc, "components").f
    ELSE EmptyProps

\* C30: a completed run with a threshold in (0,1] over a catalog with
\* pairwise distinct keys whose save succeeded leaves a persisted cache that
\* maps every entity key of the catalog to the entity's current hash pair
\* and still holds, unchanged, every record it held at load for the keys
\* that are not in the catalog.
C30_SavedCacheCoversCatalogAndKeepsRest ==
    [][ (/\ run.pc = "updated"
         /\ run'.pc = "done"
         /\ run'.saveOutcome = "written"
         /\ config.similarityThreshold > 0
         /\ DistinctKeys(run.components)) =>
            /\ file'.kind = "text"
            /\ \A i \in DOMAIN run.components :
                   /\ HasRecords(file'.doc)
                   /\ ComponentKey(run.components[i]) \in RecordKeys(file'.doc)
                   /\ Get(Cached(file'.doc, ComponentKey(run.components[i])),
                          "implementationHash") = run.components[i].implementationHash
                   /\ Get(Cached(file'.doc, ComponentKey(run.components[i])),
                          "interfaceHash") = run.components[i].interfaceHash
            /\ \A k \in DOMAIN LoadedRecords(file) \ ComponentKeysOf(run.components) :
                   /\ k \in RecordKeys(file'.doc)
                   /\ Cached(file'.doc, k) = LoadedRecords(file)[k]
      ]_vars

\* A saved run that updated a record of its catalog and kept the record of
\* a key that is not in its catalog.
C30_Witness ==
    /\ run.pc = "done"
    /\ run.saveOutcome = "written"
    /\ ~run.force
    /\ config.similarityThreshold > 0
    /\ DistinctKeys(run.components)
    /\ run.keysToUpdate # {}
    /\ file.kind = "text"
    /\ HasRecords(file.doc)
    /\ RecordKeys(file.doc) \ ComponentKeysOf(run.components) # {}

-----------------------------------------------------------------------------
(* Properties of the usage index *)

Contains(list, x) == \E i \in DOMAIN list : list[i] = x

MatchesBarrelPattern(filePath) ==
    \E i \in DOMAIN config.barrelFilePatterns :
        minimatch(filePath, config.barrelFilePatterns[i])

\* the local names an import declaration binds
BoundNames(importDecl) ==
    {importDecl.defaultImport[i] : i \in DOMAIN importDecl.defaultImport} \cup
    { IF importDecl.namedImports[i].alias # <<>>
      THEN importDecl.namedImports[i].alias[1]
      ELSE importDecl.namedImports[i].name : i \in DOMAIN importDecl.namedImports }

\* C7: the usage list returned for the key (definition file D, name n) never
\* contains a reference whose file is D, also when D imports itself.
C7_NoUsageFromDefinitionFile ==
    usages.op = "trackUsagesFromIndex" =>
        \A i \in DOMAIN usages.returned :
            usages.returned[i].filePath # relative(Cwd, usages.exportFilePath)

\* C8: no usage reference of the index comes from a file that matches a
\* barrel pattern.
C8_NoUsageFromBarrelFile ==
    index.built =>
        \A key \in DOMAIN index.map : \A i \in DOMAIN index.map[key] :
            \A f \in DOMAIN project.files :
                MatchesBarrelPattern(project.files[f].filePath) =>
                    index.map[key][i].filePath #
                        relative(Cwd, project.files[f].filePath)

\* An index built for a project with a barrel file that imports a name and
\* uses it, while another file's uses of that name are recorded.
C8_Witness ==
    /\ index.built
    /\ \E f \in DOMAIN project.files :
          LET F == project.files[f] IN
          /\ MatchesBarrelPattern(F.filePath)
          /\ \E d \in DOMAIN F.imports :
                LET T == resolveImportPath(F.filePath, F.imports[d].moduleSpecifier,
                                           SourceFilePaths(project.files))
                IN  /\ T.found
                    /\ \E n \in BoundNames(F.imports[d]) :
                          /\ SymbolUsages(F, n) # <<>>
                          /\ <<T.path, n>> \in DOMAIN index.map
                          /\ index.map[<<T.path, n>>] # <<>>

\* C9: for a non-barrel file F, an import of F that resolves to T and a name
\* n the import binds, the entry (T, n) holds a reference (F, line) for
\* exactly the occurrences of n in F outside import declarations.
C9_BoundNamesIndexed ==
    index.built =>
        \A f \in DOMAIN project.files :
            LET F == project.files[f] IN
            ~MatchesBarrelPattern(F.filePath) =>
                \A d \in DOMAIN F.imports :
                    LET T == resolveImportPath(F.filePath, F.imports[d].moduleSpecifier,
                                               SourceFilePaths(project.files))
                    IN  T.found =>
                        \A n \in BoundNames(F.imports[d]) :
                            LET entry == trackUsagesFromIndex(n, T.path, index.map) IN
                            { entry[i].line :
                                i \in { k \in DOMAIN entry :
                                         entry[k].filePath = relative(Cwd, F.filePath) } }
                            = { F.body[j].line :
                                  j \in { k \in DOMAIN F.body : F.body[k].text = n } }

\* C13: when F imports a name under an alias, the occurrences of the alias
\* in F outside import declarations are recorded under the key (definition
\* file, imported name).
C13_AliasUsesUnderCanonicalKey ==
    index.built =>
        \A f \in DOMAIN project.files :
            LET F == project.files[f] IN
            ~MatchesBarrelPattern(F.filePath) =>
                \A d \in DOMAIN F.imports :
                    LET T == resolveImportPath(F.filePath, F.imports[d].moduleSpecifier,
                                               SourceFilePaths(project.files))
                    IN  T.found =>
                        \A i \in DOMAIN F.imports[d].namedImports :
                            LET named == F.imports[d].namedImports[i]
                                entry == trackUsagesFromIndex(named.name, T.path, index.map)
                            IN  named.alias # <<>> =>
                                \A k \in DOMAIN F.body :
                                    F.body[k].text = named.alias[1] =>
                                        \E e \in DOMAIN entry :
                                            entry[e] = UsageReference(relative(Cwd, F.filePath),
                                                                      F.body[k].line)

\* C10: every usage list of the index has no two references with the same
\* (file, line) and is ordered by file path and then by ascending line.
C10_UsagesDedupedAndOrdered ==
    index.built =>
        \A key \in DOMAIN index.map :
            LET us == index.map[key] IN
            \A i, j \in DOMAIN us :
                i < j =>
                    \/ localeCompare(us[i].filePath, us[j].filePath) < 0
                    \/ /\ us[i].filePath = us[j].filePath
                       /\ us[i].line < us[j].line

\* An index with a list whose references were collected twice, through two
\* import declarations of one file, and out of order, from several files.
C10_Witness ==
    /\ index.built
    /\ \E key \in DOMAIN index.map :
          LET scanned == ScanFiles(EmptyIndex, project.files,
                                   config.barrelFilePatterns, 1)[key]
          IN  /\ Len(scanned) > Len(index.map[key])
              /\ \E i, j \in DOMAIN scanned :
                    /\ i < j
                    /\ scanned[i].filePath # scanned[j].filePath
                    /\ compareUsages(scanned[j], scanned[i]) < 0
              /\ Len(index.map[key]) >= 3

\* the source files visited in another order
Reordered(sourceFiles, order) == [i \in DOMAIN sourceFiles |-> sourceFiles[order[i]]]

\* C26: a look-up happens only on a built index and leaves it as built,
\* and the index built from the files is the same for every order in which
\* the files are visited.
C26_IndexIndependentOfFileOrder ==
    /\ usages.op = "trackUsagesFromIndex" =>
          /\ index.built
          /\ usages.returned = trackUsagesFromIndex(usages.symbolName,
                                                    usages.exportFilePath, index.map)
    /\ (index.built /\ usages = NoUsages) =>
          \A order \in Permutations(DOMAIN project.files) :
              buildImportIndex(Reordered(project.files, order),
                               config.barrelFilePatterns) = index.map

\* An index with a list that holds references from two files, which the
\* scan collected in the other order, and a look-up of that list.
C26_Witness ==
    /\ index.built
    /\ usages.op = "trackUsagesFromIndex"
    /\ Len(usages.returned) >= 2
    /\ LET scanned == ScanFiles(EmptyIndex, project.files,
                                config.barrelFilePatterns, 1)
                           [<<usages.exportFilePath, usages.symbolName>>]
       IN  \E i, j \in DOMAIN scanned :
               /\ i < j
               /\ scanned[i].filePath # scanned[j].filePath
               /\ compareUsages(scanned[j], scanned[i]) < 0

\* C27: the list looked up in the index for (definition file, name) is the
\* list the per-symbol scan returns for that symbol.
C27_IndexLookupEqualsScan ==
    usages.op = "trackUsagesFromIndex" =>
        usages.returned = trackUsages(project.files, usages.symbolName,
                                      usages.exportFilePath,
                                      config.barrelFilePatterns)

\* C28: when a non-barrel file F imports a name n from a barrel file T and
\* binds n from no other file, every occurrence of n in F is recorded
\* under (T, n) and under no key (D, n) of another file D.
C28_BarrelImportUnderBarrelKey ==
    index.built =>
        \A f \in DOMAIN project.files :
            LET F == project.files[f]
                resolved(d) == resolveImportPath(F.filePath,
                                                 F.imports[d].moduleSpecifier,
                                                 SourceFilePaths(project.files))
            IN  ~MatchesBarrelPattern(F.filePath) =>
                \A d \in DOMAIN F.imports :
                    (resolved(d).found /\ MatchesBarrelPattern(resolved(d).path)) =>
                        \A n \in BoundNames(F.imports[d]) :
                            (/\ importsSymbol(F.imports[d], n)
                             /\ \A e \in DOMAIN F.imports :
                                    (n \in BoundNames(F.imports[e]) /\ resolved(e).found)
                                        => resolved(e).path = resolved(d).path) =>
                                \A k \in DOMAIN F.body :
                                    F.body[k].text = n =>
                                        LET ref == UsageReference(relative(Cwd, F.filePath),
                                                                  F.body[k].line)
                                        IN  /\ Contains(trackUsagesFromIndex(
                                                            n, resolved(d).path, index.map), ref)
                                            /\ \A D \in SourceFilePaths(project.files) :
                                                   D # resolved(d).path =>
                                                       ~Contains(trackUsagesFromIndex(
                                                                     n, D, index.map), ref)

-----------------------------------------------------------------------------
(* Properties of the import resolver *)

BeginsWithDot(moduleSpecifier) ==
    Len(moduleSpecifier) > 0 /\ moduleSpecifier[1] \in {Dot, DotDot}

\* the candidates in the order: exact joined path, joined path with each
\* extension, joined path with each index-file suffix
CandidatesExactFirst(joined) ==
    <<joined>> \o
    [i \in 1..4 |-> WithSuffix(joined, <<".ts", ".tsx", ".js", ".jsx">>[i])] \o
    [i \in DOMAIN indexExtensions |-> Append(joined, indexExtensions[i])]

\* C11: the resolver returns the first candidate that is in the file set,
\* in the order exact joined path, extensions, index-file suffixes.
C11_ExactPathFirst ==
    (result.op = "resolveImportPath" /\ BeginsWithDot(result.moduleSpecifier)) =>
        LET joined == resolve(dirname(result.currentFilePath), result.moduleSpecifier, 1)
            candidates == CandidatesExactFirst(joined)
            hits == {i \in DOMAIN candidates :
                        candidates[i] \in SourceFilePaths(project.files)}
        IN  IF hits = {} THEN ~result.returned.found
            ELSE result.returned =
                   Resolved(candidates[CHOOSE i \in hits : \A j \in hits : i <= j])

\* C12: the resolver returns Unresolved or a file of the file set, and
\* Unresolved for every specifier that does not begin with '.'.
C12_ResolvedInFileSet ==
    result.op = "resolveImportPath" =>
        /\ result.returned.found =>
              result.returned.path \in SourceFilePaths(project.files)
        /\ ~BeginsWithDot(result.moduleSpecifier) => ~result.returned.found

\* The bare specifier "Button" is not resolved although src/Button.tsx is in
\* the file set.
C12_Witness ==
    /\ result.op = "resolveImportPath"
    /\ result.moduleSpecifier = <<Name("Button")>>
    /\ ButtonPath \in SourceFilePaths(project.files)
    /\ ~result.returned.found

-----------------------------------------------------------------------------
(* Properties of the hashes *)

OldVersion == declaration.versions[1]
NewVersion == declaration.versions[2]
BothHashed ==
    /\ result.op = "extractComponentMetadata"
    /\ result.metadata[1] # NoMetadata
    /\ result.metadata[2] # NoMetadata
SameImplementationHash ==
    result.metadata[1].implementationHash = result.metadata[2].implementationHash
SameInterfaceHash ==
    result.metadata[1].interfaceHash = result.metadata[2].interfaceHash

\* the two versions have the same tokens and differ in white space or comments
OnlyFormattingDiffers ==
    /\ OldVersion.tokens = NewVersion.tokens
    /\ OldVersion.trivia # NewVersion.trivia

TokensChanged ==
    {i \in DOMAIN OldVersion.tokens : OldVersion.tokens[i] # NewVersion.tokens[i]}
ChangedOnlyWithin(span) ==
    /\ OldVersion.trivia = NewVersion.trivia
    /\ TokensChanged # {}
    /\ \A i \in TokensChanged : span.from <= i /\ i <= span.to

\* C14: two versions of a declaration that differ only in white space,
\* indentation or comments have the same implementation hash and the same
\* interface hash.
C14_FormattingKeepsHashes ==
    (BothHashed /\ OnlyFormattingDiffers) =>
        SameImplementationHash /\ SameInterfaceHash

\* C15: a change of the body alone changes the implementation hash and keeps
\* the interface hash; a change of the signature or props type alone changes
\* the interface hash and keeps the implementation hash.
C15_BodyAndInterfaceHashedApart ==
    BothHashed =>
        /\ ChangedOnlyWithin(Body(OldVersion)) =>
              ~SameImplementationHash /\ SameInterfaceHash
        /\ ChangedOnlyWithin(ParameterList(OldVersion)) =>
              ~SameInterfaceHash /\ SameImplementationHash

-----------------------------------------------------------------------------
(* Properties of two interleaved runs *)

BothSaved == \A p \in RunIds : run[p].pc = "done"
SavedLast(p) == \A q \in RunIds : run[q].savedAt <= run[p].savedAt
MemoryKeys(p) == IF HasRecords(cache[p]) THEN RecordKeys(cache[p]) ELSE {}
PersistedKeys ==
    IF file.kind = "text" /\ HasRecords(file.doc) THEN RecordKeys(file.doc) ELSE {}

\* C18: when two runs against the same cache location have both saved, the
\* persisted cache is the in-memory cache of the run that saved last (its
\* write having succeeded), and a record that only the other run holds is
\* not in it.
C18_LastWriterWins ==
    BothSaved =>
        \A p \in RunIds :
            (SavedLast(p) /\ run[p].saveOutcome = "written") =>
                /\ file = Text(Stringify(cache[p]))
                /\ \A q \in RunIds \ {p} :
                       \A k \in MemoryKeys(q) \ MemoryKeys(p) :
                           k \notin PersistedKeys

\* Both runs loaded the empty location, each recorded a component of its
\* own and wrote it: the record of the run that saved first is lost.
C18_Witness ==
    /\ BothSaved
    /\ \E p \in RunIds :
          /\ SavedLast(p)
          /\ \A q \in RunIds : run[q].saveOutcome = "written"
          /\ \E q \in RunIds \ {p} :
                /\ run[q].keysToUpdate \ MemoryKeys(p) # {}
                /\ run[p].keysToUpdate # {}
                /\ PersistedKeys = MemoryKeys(p)

-----------------------------------------------------------------------------
(* Properties of the catalog *)

AbsolutePath(relativePath) == Cwd \o relativePath

MatchesAny(filePath, patterns) ==
    \E i \in DOMAIN patterns : minimatch(filePath, patterns[i])

SetAside(filePath) ==
    \/ MatchesAny(filePath, config.barrelFilePatterns)
    \/ MatchesAny(filePath, config.storyFilePatterns)
    \/ MatchesAny(filePath, config.constantsFilePatterns)

Included(filePath) ==
    /\ \E i \in DOMAIN config.include :
          matchOne(relative(Cwd, filePath), config.include[i], 1, 1)
    /\ ~\E i \in DOMAIN config.exclude :
          matchOne(relative(Cwd, filePath), config.exclude[i], 1, 1)

\* C20: no entry of the catalog comes from a file that matches
\* barrelFilePatterns, storyFilePatterns or constantsFilePatterns, and every
\* supported export of every other included file has an entry.
C20_PatternFilesKeptOut ==
    result.op = "generate" =>
        /\ \A i \in DOMAIN result.components :
               ~SetAside(AbsolutePath(result.components[i].filePath))
        /\ \A d \in DOMAIN project.disk :
               LET f == project.disk[d] IN
               (Included(f.filePath) /\ ~SetAside(f.filePath)) =>
                   \A e \in DOMAIN f.exports :
                       f.exports[e].kind \in SupportedKinds =>
                           \E i \in DOMAIN result.components :
                               result.components[i] =
                                   CatalogEntry(f.exports[e].name,
                                                relative(Cwd, f.filePath))

-----------------------------------------------------------------------------
(* Properties of a run in which one file fails *)

\* C21: a failure while one file is processed does not abort the run: the
\* run does not end in failure, and when it has ended the catalog holds the
\* exports of the files that did not fail and the cache has been saved.
C21_FileFailureIsolated ==
    /\ run.pc # "failed"
    /\ run.pc = "done" =>
          /\ file.kind = "text"
          /\ \A i \in DOMAIN project.files :
                project.failure = NoFailure =>
                    \A e \in DOMAIN project.files[i].exports :
                        project.files[i].exports[e].kind \in SupportedKinds =>
                            \E c \in DOMAIN result.components :
                                /\ result.components[c].name =
                                      project.files[i].exports[e].name
                                /\ result.components[c].filePath =
                                      relative(Cwd, project.files[i].filePath)

-----------------------------------------------------------------------------
(* Properties of loadConfig *)

\* C25: when a valid user configuration supplies its own exclude list, the
\* configuration loadConfig returns still excludes "**/node_modules/**".
C25_DefaultExcludeKept ==
    (/\ result.op = "loadConfig"
     /\ ~result.threw
     /\ project.configFile.kind = "text"
     /\ "exclude" \in DOMAIN project.configFile.doc) =>
        Contains(config.exclude, NodeModulesPattern)

=============================================================================
